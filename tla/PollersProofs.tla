--------------------------- MODULE PollersProofs ---------------------------
(***************************************************************************)
(* What the pollers of the Malina26 server guarantee, for any inverters,   *)
(* codes, cells, controllers, batteries, windows, back-offs and restarts:  *)
(* first each by itself, then the composition the runs check.              *)
(*                                                                         *)
(* The properties are not inductive: they say little of what the process   *)
(* remembers.  The invariants that follow do.  Of the constants only       *)
(* GridPollAssumption and PollersAssumption are used.                      *)
(***************************************************************************)
EXTENDS MCPollers, FiniteSetTheorems, WellFoundedInduction, TLAPS

-----------------------------------------------------------------------------
(* The grid inverters.                                                     *)

(* The documents of the cycle are a function, empty between the cycles.    *)
DocsOK == docs = [s \in DOMAIN docs |-> docs[s]]

(* A row that tells of an alarm still up is remembered, and the document   *)
(* that waits was read while the alarm was up.                             *)
Told ==
    \A s \in Serials, c \in Codes : told[s][c] > 0 =>
        /\ told[s][c] = 1
        /\ c \in codes[s] /\ c \in lastAlarms[s]
        /\ s \in DOMAIN docs => c \in docs[s].codes

(* The readings of an inverter only grow on their way to the time series.  *)
Ordered ==
    \A s \in Serials :
        /\ lastSeen[s] <= seen[s]
        /\ s \in DOMAIN docs => lastSeen[s] <= docs[s].last /\ docs[s].last <= seen[s]

(* No acknowledged point is newer than what is remembered as saved.        *)
Acknowledged ==
    \A s \in Serials, r \in Readings : copies[s][r] > 0 => r <= lastSeen[s]

(* What counts as saved has its point, or its series could not be created. *)
Remembered ==
    \A s \in Serials : lastSeen[s] # 0 => lastSeen[s] \in history[s] \cup skipped[s]

GridInv ==
    /\ TypeOK /\ DocsOK
    /\ Told /\ F35Alternates
    /\ Ordered /\ Acknowledged /\ Remembered /\ ShownIsInHistory /\ OnePointPerReading

-----------------------------------------------------------------------------
(* The initial state has all the parts.                                    *)
LEMMA GridInitially == Init => GridInv
<1> SUFFICES ASSUME Init PROVE GridInv
  OBVIOUS
<1> USE GridPollAssumption DEF Init, Documents, Fresh, Unread, NoDocs
<1>1. TypeOK /\ DocsOK
  <2>1. DOMAIN docs = {} /\ DocsOK /\ docs = NoDocs
    BY DEF DocsOK
  <2>2. /\ seen \in [Serials -> Readings] /\ codes \in [Serials -> SUBSET Codes]
        /\ lastSeen \in [Serials -> Readings] /\ lastAlarms \in [Serials -> SUBSET Codes]
        /\ current \in [Serials -> Readings] /\ history \in [Serials -> SUBSET Readings]
        /\ skipped \in [Serials -> SUBSET Readings]
        /\ series \in [Serials -> {"unknown", "made", "failing"}]
    BY DEF Readings
  <2>3. /\ copies \in [Serials -> [Readings -> Nat]] /\ f35 \in [Serials -> Int]
        /\ told \in [Serials -> [Codes -> Nat]]
    OBVIOUS
  <2>4. /\ changes \in 0..MaxChanges /\ restarts \in 0..MaxRestarts /\ polling \in BOOLEAN
        /\ active \subseteq Serials /\ warned \subseteq Serials
    <3>1. 0 \in 0..MaxChanges /\ 0 \in 0..MaxRestarts
      BY GridPollAssumption
    <3> QED
      BY <3>1
  <2> HIDE DEF Init, Fresh, Unread, NoDocs
  <2> QED
    BY <2>1, <2>2, <2>3, <2>4 DEF TypeOK
<1>2. Told /\ F35Alternates
  BY DEF Told, F35Alternates
<1>3. Ordered /\ Acknowledged /\ Remembered
  BY DEF Ordered, Acknowledged, Remembered
<1>4. ShownIsInHistory /\ OnePointPerReading
  BY DEF ShownIsInHistory, OnePointPerReading
<1> QED
  BY <1>1, <1>2, <1>3, <1>4 DEF GridInv

(* Every step keeps the types.                                             *)
LEMMA GridTypesKept == TypeOK /\ DocsOK /\ [Next]_vars => TypeOK' /\ DocsOK'
<1> SUFFICES ASSUME TypeOK, DocsOK, [Next]_vars PROVE TypeOK' /\ DocsOK'
  OBVIOUS
<1> USE GridPollAssumption DEF TypeOK, DocsOK, Readings, Document, Documents, NoDocs, Fresh, Unread, server, memory, redis, table
<1>1. ASSUME NEW s \in Serials, Read(s) PROVE TypeOK' /\ DocsOK'
  <2>1. seen' \in [Serials -> Readings]
    BY <1>1 DEF Read
  <2> HIDE DEF Readings, Documents, NoDocs, Fresh, Unread
  <2> QED
    BY <1>1, <2>1 DEF Read
<1>2. ASSUME NEW s \in Serials, NEW c \in Codes, Change(s, c) PROVE TypeOK' /\ DocsOK'
  <2>1. changes' \in 0..MaxChanges /\ codes' \in [Serials -> SUBSET Codes]
    BY <1>2 DEF Change
  <2>2. told' \in [Serials -> [Codes -> Nat]]
    BY <1>2 DEF Change
  <2>3. /\ DocsOK' /\ polling' \in BOOLEAN /\ (docs' # NoDocs => polling')
        /\ DOMAIN docs' \subseteq Serials \ (IF polling' THEN active' ELSE {})
        /\ \A x \in DOMAIN docs' : docs'[x] \in [last : Readings \ {0}, codes : SUBSET Codes]
        /\ active' \subseteq Serials /\ warned' \subseteq Serials
    BY <1>2 DEF Change
  <2> QED
    BY <1>2, <2>1, <2>2, <2>3 DEF Change
<1>3. ASSUME NEW got \in SUBSET Serials, Fetch(got) PROVE TypeOK' /\ DocsOK'
  <2>1. /\ DocsOK' /\ polling' /\ active' = {}
        /\ DOMAIN docs' \subseteq Serials
        /\ \A x \in DOMAIN docs' : docs'[x] \in [last : Readings \ {0}, codes : SUBSET Codes]
    BY <1>3 DEF Fetch
  <2> HIDE DEF Readings, NoDocs, Fresh, Unread
  <2> QED
    BY <1>3, <2>1 DEF Fetch
<1>4. ASSUME NEW s \in Serials, NEW made \in BOOLEAN, NEW saved \in BOOLEAN,
             NEW applied \in Applied, NEW refused \in SUBSET (Codes \cup {"F35_clear"}),
             Handle(s, made, saved, applied, refused)
      PROVE  TypeOK' /\ DocsOK'
  <2>1. /\ s \in DOMAIN docs /\ docs # NoDocs /\ polling
        /\ docs[s].last \in Readings /\ docs[s].codes \in SUBSET Codes
    BY <1>4 DEF Handle
  <2>2. DOMAIN docs' = DOMAIN docs \ {s} /\ \A x \in DOMAIN docs' : docs'[x] = docs[x]
    BY <1>4 DEF Handle
  <2>3. DocsOK' /\ (docs' # NoDocs => polling') /\ polling' \in BOOLEAN
    BY <1>4, <2>1 DEF Handle
  <2>4. /\ DOMAIN docs' \subseteq Serials \ (IF polling' THEN active' ELSE {})
        /\ \A x \in DOMAIN docs' : docs'[x] \in [last : Readings \ {0}, codes : SUBSET Codes]
    BY <1>4, <2>1, <2>2 DEF Handle
  <2>5. active' \subseteq Serials /\ warned' \subseteq Serials
    BY <1>4 DEF Handle
  <2>6. /\ current' \in [Serials -> Readings] /\ history' \in [Serials -> SUBSET Readings]
        /\ skipped' \in [Serials -> SUBSET Readings]
        /\ copies' \in [Serials -> [Readings -> Nat]] /\ lastSeen' \in [Serials -> Readings]
    <3>1. history[s] \cup {docs[s].last} \in SUBSET Readings
          /\ skipped[s] \cup {docs[s].last} \in SUBSET Readings
      BY <2>1
    <3>2. CASE saved
      <4>1. /\ current' = [current EXCEPT ![s] = docs[s].last]
            /\ lastSeen' = [lastSeen EXCEPT ![s] = IF Advance(s) THEN docs[s].last ELSE @]
            /\ history' = [history EXCEPT ![s] = IF Puts(s) THEN @ \cup {docs[s].last} ELSE @]
            /\ skipped' = [skipped EXCEPT ![s] =
                              IF Advance(s) /\ ~Puts(s) THEN @ \cup {docs[s].last} ELSE @]
        BY <1>4, <3>2 DEF Handle, Saved
      <4>2. copies' \in [Serials -> [Readings -> Nat]]
        <5> DEFINE n == IF Puts(s) THEN copies[s][docs[s].last] + 1 ELSE copies[s][docs[s].last]
                   row == [copies[s] EXCEPT ![docs[s].last] = n]
        <5>1. n \in Nat /\ row \in [Readings -> Nat]
          BY <2>1
        <5>2. copies' = [copies EXCEPT ![s] = row]
          BY <1>4, <3>2 DEF Handle, Saved
        <5> HIDE DEF row
        <5> QED
          BY <5>1, <5>2
      <4> QED
        BY <2>1, <3>1, <4>1, <4>2
    <3>3. CASE ~saved
      <4>1. /\ current' = [current EXCEPT ![s] = IF applied = "none" THEN @ ELSE docs[s].last]
            /\ history' = [history EXCEPT ![s] =
                              IF applied = "all" /\ Puts(s) THEN @ \cup {docs[s].last} ELSE @]
            /\ UNCHANGED <<lastSeen, skipped, copies>>
        BY <1>4, <3>3 DEF Handle, Refused
      <4> QED
        BY <2>1, <3>1, <4>1
    <3> QED
      BY <3>2, <3>3
  <2>8. series' \in [Serials -> {"unknown", "made", "failing"}]
    BY <1>4 DEF Handle, Ensure
  <2>7. /\ told' \in [Serials -> [Codes -> Nat]] /\ f35' \in [Serials -> Int]
        /\ lastAlarms' \in [Serials -> SUBSET Codes]
    <3>1. CASE saved
      <4>1. lastAlarms' = [lastAlarms EXCEPT ![s] = NextAlarms(s, refused)]
        BY <1>4, <3>1 DEF Handle, Alarms
      <4>2. NextAlarms(s, refused) \in SUBSET Codes
        BY <2>1 DEF NextAlarms, Cleared
      <4>3. lastAlarms' \in [Serials -> SUBSET Codes]
        BY <4>1, <4>2
      <4>4. told' \in [Serials -> [Codes -> Nat]]
        <5> DEFINE entries == (Appeared(s) \cup IF Cleared(s) THEN {"F35_clear"} ELSE {}) \ refused
                   row  == [c \in Codes |-> IF c \in entries /\ c \in codes[s]
                                            THEN told[s][c] + 1 ELSE told[s][c]]
        <5>1. row \in [Codes -> Nat]
          OBVIOUS
        <5>2. told' = [told EXCEPT ![s] = row]
          BY <1>4, <3>1 DEF Handle, Alarms
        <5> HIDE DEF row
        <5> QED
          BY <5>1, <5>2
      <4>5. f35' \in [Serials -> Int]
        <5> DEFINE entries == (Appeared(s) \cup IF Cleared(s) THEN {"F35_clear"} ELSE {}) \ refused
                   away == IF "F35" \in entries THEN 1 ELSE 0
                   back == IF "F35_clear" \in entries THEN 1 ELSE 0
        <5>1. away \in Int /\ back \in Int
          OBVIOUS
        <5>2. f35' = [f35 EXCEPT ![s] = @ + away - back]
          BY <1>4, <3>1 DEF Handle, Alarms
        <5> HIDE DEF away, back
        <5> QED
          BY <5>1, <5>2
      <4> QED
        BY <4>3, <4>4, <4>5
    <3>2. CASE ~saved
      BY <1>4, <3>2 DEF Handle, Refused
    <3> QED
      BY <3>1, <3>2
  <2> QED
    BY <1>4, <2>3, <2>4, <2>5, <2>6, <2>7, <2>8 DEF Handle
<1>5. CASE EndCycle
  <2>1. docs' = docs /\ docs = NoDocs
    BY <1>5 DEF EndCycle
  <2>2. lastSeen' \in [Serials -> Readings] /\ copies' \in [Serials -> [Readings -> Nat]] /\ warned' \subseteq Serials
    BY <1>5 DEF EndCycle
  <2> QED
    BY <1>5, <2>1, <2>2 DEF EndCycle, KeepAlarms
<1>6. CASE Restart
  <2>1. DOMAIN docs' = {} /\ DocsOK' /\ docs' = NoDocs
    BY <1>6 DEF Restart
  <2>2. /\ lastSeen' \in [Serials -> Readings] /\ lastAlarms' \in [Serials -> SUBSET Codes]
        /\ copies' \in [Serials -> [Readings -> Nat]] /\ f35' \in [Serials -> Int]
        /\ series' \in [Serials -> {"unknown", "made", "failing"}]
    BY <1>6 DEF Restart
  <2>3. told' \in [Serials -> [Codes -> Nat]]
    BY <1>6 DEF Restart
  <2>4. /\ DocsOK' /\ polling' \in BOOLEAN /\ (docs' # NoDocs => polling')
        /\ DOMAIN docs' \subseteq Serials \ (IF polling' THEN active' ELSE {})
        /\ \A x \in DOMAIN docs' : docs'[x] \in [last : Readings \ {0}, codes : SUBSET Codes]
        /\ active' \subseteq Serials /\ warned' \subseteq Serials
    BY <1>6, <2>1 DEF Restart
  <2>5. /\ seen' \in [Serials -> Readings] /\ codes' \in [Serials -> SUBSET Codes]
        /\ changes' \in 0..MaxChanges /\ restarts' \in 0..MaxRestarts
        /\ current' \in [Serials -> Readings] /\ history' \in [Serials -> SUBSET Readings]
        /\ skipped' \in [Serials -> SUBSET Readings]
    BY <1>6 DEF Restart
  <2> HIDE DEF Readings, Fresh, Unread, NoDocs
  <2> QED
    BY <2>2, <2>3, <2>4, <2>5
<1>7. CASE UNCHANGED vars
  BY <1>7 DEF vars
<1>8. ASSUME NEW s \in Serials, BackoffEnds(s) PROVE TypeOK' /\ DocsOK'
  BY <1>8 DEF BackoffEnds
<1> HIDE DEF TypeOK, DocsOK
<1> QED
  BY <1>1, <1>2, <1>3, <1>4, <1>5, <1>6, <1>7, <1>8 DEF Next

(* Every step keeps what is known of the alarms.                           *)
LEMMA GridAlarmsKept ==
    TypeOK /\ Told /\ F35Alternates /\ [Next]_vars => Told' /\ F35Alternates'
<1> SUFFICES ASSUME TypeOK, Told, F35Alternates, [Next]_vars PROVE Told' /\ F35Alternates'
  OBVIOUS
<1>0. /\ codes \in [Serials -> SUBSET Codes] /\ lastAlarms \in [Serials -> SUBSET Codes]
      /\ told \in [Serials -> [Codes -> Nat]] /\ f35 \in [Serials -> Int]
      /\ DOMAIN docs \subseteq Serials /\ \A s \in DOMAIN docs : docs[s].codes \in SUBSET Codes
  BY DEF TypeOK, Documents
<1> USE <1>0, GridPollAssumption DEF Document, Told, F35Alternates, NoDocs, Fresh, server, memory, redis, table
<1>1. ASSUME NEW s \in Serials, Read(s) PROVE Told' /\ F35Alternates'
  BY <1>1 DEF Read
<1>2. ASSUME NEW s \in Serials, NEW c \in Codes, Change(s, c) PROVE Told' /\ F35Alternates'
  <2>1. F35Alternates'
    BY <1>2 DEF Change
  <2>2. ASSUME NEW x \in Serials, NEW d \in Codes, told'[x][d] > 0
        PROVE  told[x][d] > 0 /\ told'[x][d] = told[x][d] /\ (d \in codes'[x] <=> d \in codes[x])
    BY <1>2, <2>2 DEF Change
  <2> QED
    BY <1>2, <2>1, <2>2 DEF Change
<1>3. ASSUME NEW got \in SUBSET Serials, Fetch(got) PROVE Told' /\ F35Alternates'
  BY <1>3 DEF Fetch
<1>4. ASSUME NEW s \in Serials, NEW made \in BOOLEAN, NEW saved \in BOOLEAN,
             NEW applied \in Applied, NEW refused \in SUBSET (Codes \cup {"F35_clear"}),
             Handle(s, made, saved, applied, refused)
      PROVE  Told' /\ F35Alternates'
  <2>1. /\ s \in DOMAIN docs /\ codes' = codes
        /\ DOMAIN docs' = DOMAIN docs \ {s} /\ \A x \in DOMAIN docs' : docs'[x] = docs[x]
    BY <1>4 DEF Handle
  <2>2. CASE ~saved
    BY <1>4, <2>1, <2>2 DEF Handle, Refused
  <2>3. CASE saved
    <3> DEFINE entries == (Appeared(s) \cup IF Cleared(s) THEN {"F35_clear"} ELSE {}) \ refused
    <3>1. /\ lastAlarms' = [lastAlarms EXCEPT ![s] = NextAlarms(s, refused)]
          /\ told' = [told EXCEPT ![s] = [c \in Codes |->
                 IF c \in entries /\ c \in codes[s] THEN @[c] + 1 ELSE @[c]]]
          /\ f35' = [f35 EXCEPT ![s] = @ + (IF "F35" \in entries THEN 1 ELSE 0)
                                         - (IF "F35_clear" \in entries THEN 1 ELSE 0)]
      BY <1>4, <2>3 DEF Handle, Alarms
    <3>2. ASSUME NEW c \in Codes, told'[s][c] > 0
          PROVE  told'[s][c] = 1 /\ c \in codes[s] /\ c \in NextAlarms(s, refused)
      <4>1. CASE c \in entries /\ c \in codes[s]
        <5>1. c \in Appeared(s) \ refused
          BY <4>1 DEF Appeared
        <5>2. told[s][c] = 0
          BY <5>1 DEF Appeared
        <5> QED
          BY <3>1, <4>1, <5>1, <5>2 DEF NextAlarms, Appeared
      <4>2. CASE ~(c \in entries /\ c \in codes[s])
        BY <2>1, <3>1, <3>2, <4>2 DEF NextAlarms, Appeared
      <4> QED
        BY <4>1, <4>2
    <3>3. Told'
      BY <2>1, <3>1, <3>2
    <3>4. f35'[s] = IF "F35" \in NextAlarms(s, refused) THEN 1 ELSE 0
      <4>1. docs[s].codes \in SUBSET Codes
        BY <2>1
      <4>2. f35'[s] = f35[s] + (IF "F35" \in entries THEN 1 ELSE 0)
                             - (IF "F35_clear" \in entries THEN 1 ELSE 0)
        BY <3>1
      <4>3. "F35" \in entries <=> "F35" \in docs[s].codes /\ "F35" \notin lastAlarms[s]
                                  /\ "F35" \notin refused
        BY DEF Appeared
      <4>4. "F35_clear" \in entries <=> "F35" \in lastAlarms[s] /\ "F35" \notin docs[s].codes
                                        /\ "F35_clear" \notin refused
        BY <4>1 DEF Appeared, Cleared
      <4>5. "F35" \in NextAlarms(s, refused) <=>
               \/ "F35" \in docs[s].codes /\ ("F35" \in lastAlarms[s] \/ "F35" \notin refused)
               \/ /\ "F35" \in lastAlarms[s] /\ "F35" \notin docs[s].codes
                  /\ "F35_clear" \in refused
        BY DEF NextAlarms, Appeared, Cleared
      <4>6. f35[s] = IF "F35" \in lastAlarms[s] THEN 1 ELSE 0
        OBVIOUS
      <4> HIDE DEF entries
      <4> QED
        BY <4>2, <4>3, <4>4, <4>5, <4>6
    <3>5. F35Alternates'
      BY <3>1, <3>4
    <3> QED
      BY <3>3, <3>5
  <2> QED
    BY <2>2, <2>3
<1>5. CASE EndCycle
  BY <1>5 DEF EndCycle, KeepAlarms
<1>6. CASE Restart
  BY <1>6 DEF Restart
<1>7. CASE UNCHANGED vars
  BY <1>7 DEF vars
<1>8. ASSUME NEW s \in Serials, BackoffEnds(s) PROVE Told' /\ F35Alternates'
  BY <1>8 DEF BackoffEnds
<1> HIDE DEF Told, F35Alternates
<1> QED
  BY <1>1, <1>2, <1>3, <1>4, <1>5, <1>6, <1>7, <1>8 DEF Next

(* What is known of the readings and their points.                         *)
PointsInv == Ordered /\ Acknowledged /\ Remembered /\ ShownIsInHistory /\ OnePointPerReading

(* An acknowledged point is counted at most once if only newer ones are put. *)
LEMMA PointCounted ==
    ASSUME NEW row \in [Readings -> Nat], NEW known \in Readings, NEW last \in Readings,
           known <= last, NEW puts, puts => known < last,
           \A n \in Readings : row[n] <= 1 /\ (row[n] > 0 => n <= known),
           NEW new, new = [row EXCEPT ![last] = IF puts THEN @ + 1 ELSE @],
           NEW n \in Readings
    PROVE  new[n] <= 1 /\ (new[n] > 0 => n <= last)
<1>0. \A m \in Readings : m \in Int /\ row[m] \in Nat
  BY GridPollAssumption DEF Readings
<1>1. CASE n = last /\ puts
  <2>1. row[n] = 0
    BY <1>0, <1>1
  <2> QED
    BY <1>0, <1>1, <2>1
<1>2. CASE ~(n = last /\ puts)
  <2>1. new[n] = row[n]
    BY <1>2
  <2> QED
    BY <1>0, <2>1
<1> QED
  BY <1>1, <1>2

(* Every step keeps it.                                                    *)
LEMMA GridPointsKept == TypeOK /\ PointsInv /\ [Next]_vars => PointsInv'
<1> SUFFICES ASSUME TypeOK, PointsInv, [Next]_vars PROVE PointsInv'
  OBVIOUS
<1>0. /\ seen \in [Serials -> Readings] /\ lastSeen \in [Serials -> Readings]
      /\ current \in [Serials -> Readings] /\ history \in [Serials -> SUBSET Readings]
      /\ skipped \in [Serials -> SUBSET Readings] /\ copies \in [Serials -> [Readings -> Nat]]
      /\ DOMAIN docs \subseteq Serials /\ \A s \in DOMAIN docs : docs[s].last \in Readings \ {0}
  BY DEF TypeOK, Documents
<1> USE <1>0, GridPollAssumption DEF Readings, Document, NoDocs, Fresh, Unread, server, memory, redis, table,
        PointsInv, Ordered, Acknowledged, Remembered, ShownIsInHistory, OnePointPerReading
<1>1. ASSUME NEW s \in Serials, Read(s) PROVE PointsInv'
  <2>1. /\ UNCHANGED <<docs, lastSeen, current, history, skipped, copies>>
        /\ seen' = [seen EXCEPT ![s] = @ + 1]
    BY <1>1 DEF Read
  <2>2. ASSUME NEW x \in Serials
        PROVE  /\ lastSeen[x] <= seen'[x]
               /\ x \in DOMAIN docs => lastSeen[x] <= docs[x].last /\ docs[x].last <= seen'[x]
    <3>1. seen'[x] = (IF x = s THEN seen[x] + 1 ELSE seen[x]) /\ seen[x] \in Int /\ lastSeen[x] \in Int
      BY <2>1
    <3>2. x \in DOMAIN docs => docs[x].last \in Int
      <4>1. Readings \ {0} \subseteq Int
        BY ONLY GridPollAssumption DEF Readings
      <4>2. \A t \in DOMAIN docs : docs[t].last \in Readings \ {0}
        BY ONLY <1>0
      <4> QED
        BY ONLY <4>1, <4>2
    <3>3. lastSeen[x] <= seen[x] /\ (x \in DOMAIN docs => lastSeen[x] <= docs[x].last /\ docs[x].last <= seen[x])
      BY DEF Ordered
    <3>4. seen'[x] \in Int /\ seen[x] <= seen'[x]
      BY ONLY <3>1
    <3> QED
      BY ONLY <3>1, <3>2, <3>3, <3>4
  <2> QED
    BY <2>1, <2>2
<1>2. ASSUME NEW s \in Serials, NEW c \in Codes, Change(s, c) PROVE PointsInv'
  BY <1>2 DEF Change
<1>3. ASSUME NEW got \in SUBSET Serials, Fetch(got) PROVE PointsInv'
  BY <1>3 DEF Fetch
<1>4. ASSUME NEW s \in Serials, NEW made \in BOOLEAN, NEW saved \in BOOLEAN,
             NEW applied \in Applied, NEW refused \in SUBSET (Codes \cup {"F35_clear"}),
             Handle(s, made, saved, applied, refused)
      PROVE  PointsInv'
  <2>1. /\ s \in DOMAIN docs /\ seen' = seen /\ docs[s].last \in Readings \ {0}
        /\ DOMAIN docs' = DOMAIN docs \ {s} /\ \A x \in DOMAIN docs' : docs'[x] = docs[x]
    BY <1>4 DEF Handle
  <2>2. lastSeen[s] <= docs[s].last /\ (~Advance(s) => docs[s].last = lastSeen[s])
    BY <2>1 DEF Advance
  <2>3. Puts(s) => Advance(s)
    BY DEF Puts
  <2>4. CASE ~saved
    <3>1. /\ current' = [current EXCEPT ![s] = IF applied = "none" THEN @ ELSE docs[s].last]
          /\ history' = [history EXCEPT ![s] =
                            IF applied = "all" /\ Puts(s) THEN @ \cup {docs[s].last} ELSE @]
          /\ UNCHANGED <<lastSeen, skipped, copies>>
      BY <1>4, <2>4 DEF Handle, Refused
    <3>2. Ordered' /\ Acknowledged' /\ OnePointPerReading'
      BY <2>1, <3>1
    <3>3. Remembered'
      BY <3>1
    <3>4. ShownIsInHistory'
      BY <2>1, <2>2, <3>1 DEF Advance
    <3> QED
      BY <3>2, <3>3, <3>4
  <2>5. CASE saved
    <3>1. /\ current' = [current EXCEPT ![s] = docs[s].last]
          /\ lastSeen' = [lastSeen EXCEPT ![s] = IF Advance(s) THEN docs[s].last ELSE @]
          /\ history' = [history EXCEPT ![s] = IF Puts(s) THEN @ \cup {docs[s].last} ELSE @]
          /\ copies' = [copies EXCEPT ![s][docs[s].last] = IF Puts(s) THEN @ + 1 ELSE @]
          /\ skipped' = [skipped EXCEPT ![s] =
                            IF Advance(s) /\ ~Puts(s) THEN @ \cup {docs[s].last} ELSE @]
      BY <1>4, <2>5 DEF Handle, Saved
    <3>2. lastSeen'[s] = docs[s].last /\ current'[s] = docs[s].last
      BY <2>1, <2>2, <3>1
    <3>3. docs[s].last \in history'[s] \cup skipped'[s]
      BY <2>1, <2>2, <3>1
    <3>4. Ordered'
      BY <2>1, <3>1, <3>2
    <3>5. Remembered' /\ ShownIsInHistory'
      BY <3>1, <3>2, <3>3
    <3>6. ASSUME NEW x \in Serials, NEW n \in Readings
          PROVE  copies'[x][n] <= 1 /\ (copies'[x][n] > 0 => n <= lastSeen'[x])
      <4>1. CASE x = s
        <5>1. copies'[s] = [copies[s] EXCEPT ![docs[s].last] = IF Puts(s) THEN @ + 1 ELSE @]
          BY <3>1
        <5>2. Puts(s) => lastSeen[s] < docs[s].last
          BY <2>3 DEF Advance
        <5>3. /\ copies[s] \in [Readings -> Nat] /\ lastSeen[s] \in Readings
              /\ docs[s].last \in Readings
              /\ \A m \in Readings : copies[s][m] <= 1 /\ (copies[s][m] > 0 => m <= lastSeen[s])
          BY <2>1
        <5> QED
          BY <2>2, <3>2, <4>1, <5>1, <5>2, <5>3, PointCounted
      <4>2. CASE x # s
        BY <3>1, <4>2
      <4> QED
        BY <4>1, <4>2
    <3> QED
      BY <3>4, <3>5, <3>6
  <2> QED
    BY <2>4, <2>5
<1>5. CASE EndCycle
  BY <1>5 DEF EndCycle
<1>6. CASE Restart
  BY <1>6 DEF Restart
<1>7. CASE UNCHANGED vars
  BY <1>7 DEF vars
<1>8. ASSUME NEW s \in Serials, BackoffEnds(s) PROVE PointsInv'
  BY <1>8 DEF BackoffEnds
<1> HIDE DEF TypeOK, PointsInv
<1> QED
  BY <1>1, <1>2, <1>3, <1>4, <1>5, <1>6, <1>7, <1>8 DEF Next

\* A step of the inverters' poller keeps all of it.
LEMMA GridStep == GridInv /\ [Next]_vars => GridInv'
<1>. QED
    BY GridTypesKept, GridAlarmsKept, GridPointsKept DEF GridInv, PointsInv

LEMMA GridOnce == GridInv => AlarmsAlternate
<1>1. GridInv => OncePerEpisode
    <2>1. GridInv => Told /\ told \in [Serials -> [Codes -> Nat]]
        BY DEF GridInv, TypeOK
    <2>. QED
        BY <2>1 DEF Told, OncePerEpisode
<1>. QED
    BY <1>1 DEF GridInv, AlarmsAlternate

LEMMA GridShown == GridInv => ReadingsAreKept
BY DEF GridInv, ReadingsAreKept

LEMMA GridTyped == GridInv => TypeOK
BY DEF GridInv

-----------------------------------------------------------------------------
(* The MAP and the controllers.                                            *)

\* What PollersAssumption says of the loop of the MAP.
LEMMA MapAssumed ==
    /\ Labelled \subseteq Controllers /\ "map" \notin Controllers
    /\ None \notin Values /\ None \notin Nat /\ None \notin M!Snapshots
    /\ Delay \in Nat \ {0} /\ Tolerance \in Nat \ {0} /\ MaxRestarts \in Nat
BY PollersAssumption DEF M!MapPollAssumption

\* The types in the history of errors; an episode is no older than the silence
\* it belongs to, and its row is remembered.
Episodes ==
    /\ failing \in [M!Devices -> 0..Delay \cup {None}] /\ logged \in [M!Devices -> BOOLEAN]
    /\ silent \in [M!Devices -> 0..Delay] /\ rows \in [M!Devices -> 0..1]
    /\ \A d \in M!Devices : /\ failing[d] # None => failing[d] <= silent[d]
                            /\ rows[d] = 1 => logged[d]

\* The snapshot that is remembered is the one shown unless its save was not
\* acknowledged, and before the first one nothing was measured.
Cells ==
    /\ mapWin \in M!Snapshots \cup {None}
    /\ mapShown \in M!Snapshots
    /\ {measured, unsure} \subseteq [Kept -> Values \cup {None}]
    /\ mapWin = None => measured = M!NotKept
    /\ M!KeptTagsAreNewest

\* A controller that is shown was missed by no more answers than were empty.
Display ==
    /\ empty \in 0..Tolerance /\ kesShown \subseteq Controllers
    /\ missed \in [Controllers -> 0..Tolerance]
    /\ \A d \in kesShown : missed[d] <= empty /\ missed[d] < Tolerance

MapRest == turn \in {"map", "kes", "end"} /\ mapRestarts \in 0..MaxRestarts

MapInv == Episodes /\ Cells /\ Display /\ MapRest

LEMMA MapInitially == M!Init => MapInv
<1>. SUFFICES ASSUME M!Init PROVE MapInv
    OBVIOUS
<1>. USE MapAssumed DEF M!Init, M!Nobody
<1>1. Episodes
    BY DEF Episodes
<1>2. M!NoTag \in M!Snapshots
    BY DEF M!NoTag, M!Snapshots
<1>3. Cells
    BY <1>2 DEF Cells, M!KeptTagsAreNewest, M!NotKept
<1>4. Display /\ MapRest
    BY DEF Display, MapRest
<1>. QED
    BY <1>1, <1>3, <1>4 DEF MapInv

\* What a cycle does to the history of errors: a row only after the delay.
LEMMA AccountKeeps ==
    ASSUME Episodes, NEW good, NEW bad, NEW refused, good \cap bad = {},
           M!Account(good, bad, refused)
    PROVE  Episodes' /\ \A d \in M!Devices : rows'[d] > rows[d] => silent[d] >= Delay
<1>. USE MapAssumed
<1>1. ASSUME NEW d \in M!Devices
      PROVE  M!Since(d) \in 0..Delay /\ (M!Since(d) <= silent[d])
    BY DEF Episodes, M!Since
<1>2. failing' \in [M!Devices -> 0..Delay \cup {None}] /\ logged' \in [M!Devices -> BOOLEAN]
    BY <1>1 DEF Episodes, M!Account
<1>3. silent' \in [M!Devices -> 0..Delay]
    BY DEF Episodes, M!Account
<1>4. ASSUME NEW d \in M!Devices
      PROVE  /\ rows'[d] \in 0..1 /\ (rows'[d] = 1 => logged'[d])
             /\ failing'[d] # None => failing'[d] <= silent'[d]
             /\ rows'[d] > rows[d] => silent[d] >= Delay
    <2>1. d \in M!Written(bad, refused) => d \in bad /\ rows[d] = 0 /\ M!Since(d) >= Delay
        BY DEF Episodes, M!Written, M!Due
    <2>2. CASE d \in good
        BY <2>2 DEF Episodes, M!Account
    <2>3. CASE d \notin good
        <3>1. /\ failing'[d] = IF d \in bad THEN M!Since(d) ELSE failing[d]
              /\ logged'[d] <=> logged[d] \/ d \in M!Written(bad, refused)
              /\ silent'[d] = silent[d]
              /\ rows'[d] = IF d \in M!Written(bad, refused) THEN rows[d] + 1 ELSE rows[d]
            BY <2>3 DEF M!Account
        <3>2. /\ silent[d] \in 0..Delay /\ rows[d] \in 0..1 /\ (rows[d] = 1 => logged[d])
              /\ failing[d] # None => failing[d] <= silent[d]
            BY DEF Episodes
        <3>. QED
            BY <1>1, <2>1, <3>1, <3>2
    <2>. QED
        BY <2>2, <2>3
<1>5. rows' \in [M!Devices -> 0..1]
    <2>. DEFINE row(d) == IF d \in good THEN 0
                          ELSE IF d \in M!Written(bad, refused) THEN rows[d] + 1 ELSE rows[d]
    <2>1. rows' = [d \in M!Devices |-> row(d)]
        BY DEF M!Account
    <2>2. ASSUME NEW d \in M!Devices PROVE row(d) \in 0..1
        BY <1>4, <2>1
    <2>. HIDE DEF row
    <2>. QED
        BY <2>1, <2>2
<1>. QED
    BY <1>2, <1>3, <1>4, <1>5 DEF Episodes

\* What a saved snapshot does to the cells.
LEMMA SaveKeeps ==
    ASSUME Cells, NEW values \in M!Snapshots, M!SaveMap(values)
    PROVE  Cells'
<1>. USE MapAssumed
<1>1. M!Merge(values) \in M!Snapshots
    BY DEF Cells, M!Merge, M!Snapshots
<1>2. mapWin' \in M!Snapshots /\ mapShown' \in M!Snapshots /\ mapWin' # None
    BY <1>1 DEF M!SaveMap, M!Remembered
<1>3. {measured', unsure'} \subseteq [Kept -> Values \cup {None}]
    BY DEF Cells, M!SaveMap, M!Snapshots, M!Tags, M!NotKept
<1>4. ASSUME NEW t \in Kept
      PROVE  mapWin'[t] = measured'[t] /\ mapShown'[t] = measured'[t] /\ unsure'[t] = None
    <2>1. t \in M!Tags
        BY DEF M!Tags
    <2>2. /\ mapWin'[t] = IF values[t] = None /\ mapWin # None THEN mapWin[t] ELSE values[t]
          /\ mapShown'[t] = mapWin'[t]
          /\ measured'[t] = IF values[t] # None THEN values[t] ELSE measured[t]
          /\ unsure'[t] = None
        BY <2>1 DEF M!SaveMap, M!Remembered, M!Merge, M!NotKept
    <2>3. mapWin # None => mapWin[t] = measured[t]
        BY DEF Cells, M!KeptTagsAreNewest
    <2>4. mapWin = None => measured[t] = None
        BY <2>1 DEF Cells, M!NotKept
    <2>. QED
        BY <2>2, <2>3, <2>4
<1>. QED
    BY <1>2, <1>3, <1>4 DEF Cells, M!KeptTagsAreNewest

\* What a snapshot that is shown but not remembered does to the cells.
LEMMA FailedSaveKeeps ==
    ASSUME Cells, NEW values \in M!Snapshots, M!SaveMapFails(values)
    PROVE  Cells'
<1>. USE MapAssumed
<1>1. mapShown' \in M!Snapshots
    BY DEF Cells, M!SaveMapFails, M!Merge, M!Snapshots
<1>2. unsure' \in [Kept -> Values \cup {None}] /\ UNCHANGED <<mapWin, measured>>
    BY DEF M!SaveMapFails, M!Snapshots, M!Tags
<1>3. ASSUME mapWin # None, NEW t \in Kept
      PROVE  mapShown'[t] = IF unsure'[t] # None THEN unsure'[t] ELSE measured[t]
    <2>1. t \in M!Tags
        BY DEF M!Tags
    <2>2. /\ mapShown'[t] = IF values[t] = None THEN mapWin[t] ELSE values[t]
          /\ unsure'[t] = values[t]
        BY <1>3, <2>1 DEF M!SaveMapFails, M!Merge
    <2>. QED
        BY <1>3, <2>2 DEF Cells, M!KeptTagsAreNewest
<1>. QED
    BY <1>1, <1>2, <1>3 DEF Cells, M!KeptTagsAreNewest

\* What an answer about the controllers does to the display.
LEMMA DisplayKeeps ==
    ASSUME Display, NEW listed \in SUBSET Controllers, NEW good \in SUBSET listed,
           NEW saved \in SUBSET good, NEW pruned \in BOOLEAN, NEW refused,
           M!PollKes(listed, good, saved, pruned, refused)
    PROVE  Display' /\ M!ListedControllersStay
<1>. USE MapAssumed
<1>. DEFINE present == M!Named(listed, good)
            gone   == IF M!ShouldPrune(listed) /\ pruned
                      THEN M!Gone(M!ShownWith(saved), present) ELSE {}
<1>1. present \subseteq listed /\ (listed \cap Labelled) \subseteq present
    BY DEF M!Named
<1>2. empty' = IF listed = {} THEN M!Cap(empty + 1, Tolerance) ELSE 0
    BY DEF M!PollKes
<1>3. kesShown' = (kesShown \cup saved) \ gone
    BY DEF M!PollKes, M!ShownWith
<1>4. \A d \in Controllers : missed'[d] = IF d \in listed \/ ~pruned THEN 0
                                          ELSE M!Cap(missed[d] + 1, Tolerance)
    BY DEF M!PollKes
<1>5. /\ empty \in 0..Tolerance /\ \A d \in Controllers : missed[d] \in 0..Tolerance
      /\ kesShown \subseteq Controllers
    BY DEF Display
<1>6. empty' \in 0..Tolerance /\ kesShown' \subseteq Controllers
    BY <1>2, <1>3, <1>5 DEF M!Cap
<1>7. missed' \in [Controllers -> 0..Tolerance]
    BY <1>5 DEF M!PollKes, M!Cap
<1>8. M!ShouldPrune(listed) <=> listed # {} \/ empty + 1 >= Tolerance
    BY DEF M!ShouldPrune
<1>9. gone \subseteq (kesShown \cup saved) \ present
    BY DEF M!Gone, M!ShownWith
<1>10. ASSUME NEW d \in kesShown' PROVE missed'[d] <= empty' /\ missed'[d] < Tolerance
    <2>1. d \in Controllers /\ d \in kesShown \cup saved /\ d \notin gone
        BY <1>3, <1>6
    <2>2. CASE d \in listed \/ ~pruned
        BY <1>4, <1>6, <2>1, <2>2
    <2>3. CASE d \notin listed /\ pruned
        <3>1. d \in kesShown /\ d \notin present
            BY <1>1, <2>1, <2>3
        <3>2. ~M!ShouldPrune(listed)
            BY <2>1, <2>3, <3>1 DEF M!Gone, M!ShownWith
        <3>3. missed[d] <= empty
            BY <3>1 DEF Display
        <3>. QED
            BY <1>2, <1>4, <1>5, <1>8, <2>1, <2>3, <3>2, <3>3 DEF M!Cap
    <2>. QED
        BY <2>2, <2>3
<1>11. ASSUME NEW d \in kesShown \ kesShown'
       PROVE  (missed'[d] > 0 \/ d \notin Labelled) /\ empty' \in {0, Tolerance}
    <2>1. d \in gone /\ d \in Controllers
        BY <1>3, <1>5
    <2>2. M!ShouldPrune(listed) /\ pruned /\ d \notin present
        BY <1>9, <2>1
    <2>3. d \in listed => d \notin Labelled
        BY <1>1, <2>2
    <2>4. d \notin listed => missed'[d] > 0
        BY <1>4, <1>5, <2>1, <2>2 DEF M!Cap
    <2>5. empty' \in {0, Tolerance}
        BY <1>2, <1>5, <1>8, <2>2 DEF M!Cap
    <2>. QED
        BY <2>3, <2>4, <2>5
<1>. QED
    BY <1>6, <1>7, <1>10, <1>11 DEF Display, M!ListedControllersStay

\* A step of the loop keeps the invariant, and does what it may.
LEMMA MapKept ==
    ASSUME MapInv, [M!Next]_(M!vars)
    PROVE  /\ MapInv'
           /\ \A d \in M!Devices : rows'[d] > rows[d] => silent[d] >= Delay
           /\ M!ListedControllersStay
<1>. USE MapAssumed DEF MapInv
<1>0. /\ kesShown' = kesShown => M!ListedControllersStay
      /\ UNCHANGED M!mapVars => Cells'
      /\ UNCHANGED M!kesVars => Display' /\ M!ListedControllersStay
      /\ rows' = rows => \A d \in M!Devices : rows'[d] > rows[d] => silent[d] >= Delay
    <2>1. kesShown' = kesShown => M!ListedControllersStay
        BY DEF M!ListedControllersStay
    <2>2. UNCHANGED M!mapVars => Cells'
        BY DEF M!mapVars, Cells, M!KeptTagsAreNewest
    <2>3. UNCHANGED M!kesVars => Display' /\ kesShown' = kesShown
        BY DEF M!kesVars, Display
    <2>4. \A d \in M!Devices : rows[d] \in Int
        BY DEF Episodes
    <2>. QED
        BY <2>1, <2>2, <2>3, <2>4
<1>1. ASSUME NEW values \in [M!Tags -> Values \cup {None}], M!PollMap(values)
      PROVE  MapInv' /\ (\A d \in M!Devices : rows'[d] > rows[d] => silent[d] >= Delay)
             /\ M!ListedControllersStay
    <2>1. Episodes' /\ \A d \in M!Devices : rows'[d] > rows[d] => silent[d] >= Delay
        BY <1>1, AccountKeeps DEF M!PollMap
    <2>2. Cells'
        BY <1>0, <1>1, SaveKeeps, FailedSaveKeeps DEF M!PollMap, M!Snapshots
    <2>3. Display' /\ M!ListedControllersStay /\ MapRest'
        BY <1>0, <1>1 DEF M!PollMap, MapRest
    <2>. QED
        BY <2>1, <2>2, <2>3
<1>2. ASSUME NEW refused \in SUBSET {"map"}, M!PollMapFails(refused)
      PROVE  MapInv' /\ (\A d \in M!Devices : rows'[d] > rows[d] => silent[d] >= Delay)
             /\ M!ListedControllersStay
    <2>1. Episodes' /\ \A d \in M!Devices : rows'[d] > rows[d] => silent[d] >= Delay
        BY <1>2, AccountKeeps DEF M!PollMapFails
    <2>2. Cells' /\ Display' /\ M!ListedControllersStay /\ MapRest'
        BY <1>0, <1>2 DEF M!PollMapFails, MapRest
    <2>. QED
        BY <2>1, <2>2
<1>3. ASSUME NEW listed \in SUBSET Controllers, NEW good \in SUBSET listed,
             NEW saved \in SUBSET good, NEW pruned \in BOOLEAN,
             NEW refused \in SUBSET (listed \ good),
             M!PollKes(listed, good, saved, pruned, refused)
      PROVE  MapInv' /\ (\A d \in M!Devices : rows'[d] > rows[d] => silent[d] >= Delay)
             /\ M!ListedControllersStay
    <2>0. M!Account(good, M!Named(listed, good) \ good, refused)
        BY <1>3 DEF M!PollKes
    <2>1. Episodes' /\ \A d \in M!Devices : rows'[d] > rows[d] => silent[d] >= Delay
        BY <2>0, AccountKeeps
    <2>2. Display' /\ M!ListedControllersStay
        BY <1>3, DisplayKeeps
    <2>3. Cells' /\ MapRest'
        BY <1>0, <1>3 DEF M!PollKes, MapRest
    <2>. QED
        BY <2>1, <2>2, <2>3
<1>4. CASE M!PollKesFails
    <2>1. Episodes' /\ rows' = rows
        BY <1>4 DEF M!PollKesFails, M!errVars, Episodes
    <2>. QED
        BY <1>0, <1>4, <2>1 DEF M!PollKesFails, MapRest
<1>5. CASE M!Tick
    <2>1. Episodes' /\ rows' = rows
        BY <1>5 DEF M!Tick, M!Cap, Episodes
    <2>. QED
        BY <1>0, <1>5, <2>1 DEF M!Tick, MapRest
<1>6. CASE M!Restart
    <2>1. Episodes'
        BY <1>6 DEF M!Restart, M!Nobody, Episodes
    <2>2. \A d \in M!Devices : rows[d] \in 0..1 /\ rows'[d] = 0
        BY <1>6 DEF M!Restart, M!Nobody, Episodes
    <2>3. M!NotKept \in [Kept -> Values \cup {None}]
        BY DEF M!NotKept
    <2>4. Cells'
        BY <1>6, <2>3 DEF M!Restart, Cells, M!KeptTagsAreNewest
    <2>5. Display' /\ kesShown' = kesShown
        BY <1>6 DEF M!Restart, M!Nobody, Display
    <2>6. MapRest'
        BY <1>6 DEF M!Restart, MapRest
    <2>. QED
        BY <1>0, <2>1, <2>2, <2>4, <2>5, <2>6
<1>7. CASE UNCHANGED M!vars
    <2>1. Episodes' /\ rows' = rows
        BY <1>7 DEF M!vars, M!errVars, Episodes
    <2>. QED
        BY <1>0, <1>7, <2>1 DEF M!vars, MapRest
<1>. QED
    BY <1>1, <1>2, <1>3, <1>4, <1>5, <1>6, <1>7 DEF M!Next

LEMMA MapTypes == MapInv => M!TypeOK
BY DEF MapInv, Episodes, Cells, Display, MapRest, M!TypeOK

-----------------------------------------------------------------------------
(* The alarms of batteries and MAP.                                        *)

\* What PollersAssumption says of the alarms.
LEMMA AlarmsAssumed ==
    /\ Warns \cap Protects = {} /\ A!BmsAlarm \cap MapAlarms = {} /\ "map" \notin Slots
    /\ Window \in Nat \ {0} /\ MaxRestarts \in Nat /\ MaxAlarmChanges \in Nat
    /\ None \notin Nat
BY PollersAssumption DEF A!BmsAlarmsAssumption

AlarmTypes ==
    /\ up \in [A!Sources -> SUBSET A!Alarms] /\ alarmChanges \in 0..MaxAlarmChanges
    /\ lastBms \subseteq A!BmsAlarm /\ lastMap \subseteq MapAlarms
    /\ age \in [A!Alarms -> 0..(Window + 1) \cup {None}]
    /\ toldBms \in [A!Alarms -> 0..2] /\ blind \subseteq Warns /\ hidden \subseteq A!BmsAlarm
    /\ alarmRestarts \in 0..MaxRestarts

\* The slots show alarms of the battery, the MAP its own.
Places == up["map"] \subseteq MapAlarms /\ \A s \in Slots : up[s] \subseteq A!BmsAlarm

\* What was told of is up, once, and remembered; of a battery unless a poll
\* missed the slot that shows it.
TellsOfUp(a) == toldBms[a] > 0 => A!IsUp(a, up)
ToldOnce ==
    /\ \A a \in A!Alarms : TellsOfUp(a)
    /\ \A a \in A!BmsAlarm \ hidden : toldBms[a] <= 1 /\ (toldBms[a] = 1 => a \in lastBms)
    /\ \A a \in MapAlarms : toldBms[a] <= 1 /\ (toldBms[a] = 1 => a \in lastMap)

AlarmInv == AlarmTypes /\ Places /\ ToldOnce /\ A!RememberedHasRow

LEMMA AlarmsInitially == A!Init => AlarmInv
<1>. SUFFICES ASSUME A!Init PROVE AlarmInv
    OBVIOUS
<1>. USE AlarmsAssumed DEF A!Init, A!Zero
<1>1. AlarmTypes
    BY DEF AlarmTypes
<1>2. Places
    BY DEF Places, A!Sources
<1>3. ToldOnce
    BY DEF ToldOnce, TellsOfUp, A!Alarms
<1>4. A!RememberedHasRow
    BY DEF A!RememberedHasRow
<1>. QED
    BY <1>1, <1>2, <1>3, <1>4 DEF AlarmInv

LEMMA AlarmKinds ==
    /\ A!Alarms = A!BmsAlarm \cup MapAlarms /\ Warns \subseteq A!BmsAlarm
    /\ \A a \in A!BmsAlarm : a \notin MapAlarms
BY AlarmsAssumed DEF A!Alarms, A!BmsAlarm

\* An alarm of the MAP is up where the MAP shows it, one of a battery where a
\* slot does.
LEMMA WhereUp ==
    ASSUME Places, NEW a
    PROVE  /\ a \in MapAlarms => (A!IsUp(a, up) <=> a \in up["map"])
           /\ a \in A!BmsAlarm => (A!IsUp(a, up) <=> \E s \in Slots : a \in up[s])
BY AlarmKinds DEF Places, A!IsUp, A!Sources

\* What rows do to the alarms they tell of.
LEMMA WriteKeeps ==
    ASSUME AlarmTypes, NEW written \in SUBSET A!Alarms, NEW aging, A!Write(written, aging)
    PROVE  /\ age' \in [A!Alarms -> 0..(Window + 1) \cup {None}]
           /\ toldBms' \in [A!Alarms -> 0..2]
           /\ \A a \in A!Alarms :
                 /\ a \in written \/ age[a] # None => age'[a] # None
                 /\ toldBms'[a] = IF a \in written /\ A!IsUp(a, up) /\ toldBms[a] < 2
                                  THEN toldBms[a] + 1 ELSE toldBms[a]
                 /\ toldBms[a] \in 0..2
<1>. USE AlarmsAssumed
<1>1. ASSUME NEW a \in A!Alarms
      PROVE  /\ age'[a] = IF a \in written THEN 0
                          ELSE IF a \in aging /\ age[a] # None /\ age[a] <= Window
                               THEN age[a] + 1 ELSE age[a]
             /\ toldBms'[a] = IF a \in written /\ A!IsUp(a, up) /\ toldBms[a] < 2
                              THEN toldBms[a] + 1 ELSE toldBms[a]
             /\ age[a] \in 0..(Window + 1) \cup {None} /\ toldBms[a] \in 0..2
    BY DEF A!Write, AlarmTypes
<1>2. ASSUME NEW a \in A!Alarms
      PROVE  /\ age'[a] \in 0..(Window + 1) \cup {None}
             /\ toldBms'[a] \in 0..2
             /\ a \in written \/ age[a] # None => age'[a] # None
    BY <1>1
<1>3. DOMAIN age' = A!Alarms /\ DOMAIN toldBms' = A!Alarms
    BY DEF A!Write
<1>4. age' = [a \in A!Alarms |-> age'[a]] /\ toldBms' = [a \in A!Alarms |-> toldBms'[a]]
    BY DEF A!Write
<1>. HIDE DEF A!Write
<1>5. age' \in [A!Alarms -> 0..(Window + 1) \cup {None}]
    BY <1>2, <1>4
<1>6. toldBms' \in [A!Alarms -> 0..2]
    BY <1>2, <1>4
<1>. QED
    BY <1>1, <1>2, <1>5, <1>6

\* An alarm comes up or goes away.
LEMMA ChangeKeeps ==
    ASSUME AlarmInv, NEW s \in A!Sources, NEW a \in A!Alarms, A!Change(s, a)
    PROVE  AlarmInv' /\ A!WarnsAreSpaced
<1>. USE AlarmsAssumed DEF AlarmInv
<1>1. /\ a \in IF s = "map" THEN MapAlarms ELSE A!BmsAlarm
      /\ up' = [up EXCEPT ![s] = IF a \in up[s] THEN up[s] \ {a} ELSE up[s] \cup {a}]
      /\ alarmChanges < MaxAlarmChanges /\ alarmChanges' = alarmChanges + 1
      /\ UNCHANGED <<lastBms, lastMap, age, blind, alarmRestarts>>
      /\ IF A!IsUp(a, up) = A!IsUp(a, up')
         THEN UNCHANGED <<toldBms, hidden>>
         ELSE toldBms' = [toldBms EXCEPT ![a] = 0] /\ hidden' = hidden \ {a}
    BY DEF A!Change
<1>2. AlarmTypes'
    <2>1. up' \in [A!Sources -> SUBSET A!Alarms]
        BY <1>1 DEF AlarmTypes
    <2>2. toldBms' \in [A!Alarms -> 0..2] /\ hidden' \subseteq A!BmsAlarm
        BY <1>1 DEF AlarmTypes
    <2>. QED
        BY <1>1, <2>1, <2>2 DEF AlarmTypes
<1>3. Places'
    BY <1>1, AlarmKinds DEF Places, AlarmTypes, A!Sources
<1>4. \A b \in A!Alarms : b # a => (A!IsUp(b, up) <=> A!IsUp(b, up'))
    BY <1>1 DEF A!IsUp, AlarmTypes
<1>5. ToldOnce' /\ A!WarnsAreSpaced
    <2>1. CASE A!IsUp(a, up) = A!IsUp(a, up')
        <3>1. UNCHANGED <<toldBms, hidden>>
            BY <1>1, <2>1
        <3>2. \A b \in A!Alarms : TellsOfUp(b)'
            BY <1>4, <2>1, <3>1 DEF ToldOnce, TellsOfUp
        <3>3. A!WarnsAreSpaced
            BY <3>1, AlarmKinds DEF A!WarnsAreSpaced, AlarmTypes
        <3>. QED
            BY <1>1, <3>1, <3>2, <3>3 DEF ToldOnce
    <2>2. CASE A!IsUp(a, up) # A!IsUp(a, up')
        <3>1. toldBms' = [toldBms EXCEPT ![a] = 0] /\ hidden' = hidden \ {a}
            BY <1>1, <2>2
        <3>2. /\ toldBms'[a] = 0
              /\ \A b \in A!Alarms : b # a => toldBms'[b] = toldBms[b]
              /\ \A b \in A!Alarms : toldBms[b] \in 0..2 /\ toldBms'[b] <= toldBms[b]
            BY <3>1 DEF AlarmTypes
        <3>3. \A b \in A!Alarms : TellsOfUp(b)'
            BY <1>4, <3>2 DEF ToldOnce, TellsOfUp
        <3>4. A!WarnsAreSpaced
            BY <3>2, AlarmKinds DEF A!WarnsAreSpaced, AlarmTypes
        <3>5. /\ \A b \in A!BmsAlarm \ hidden' :
                    toldBms'[b] <= 1 /\ (toldBms'[b] = 1 => b \in lastBms')
              /\ \A b \in MapAlarms :
                    toldBms'[b] <= 1 /\ (toldBms'[b] = 1 => b \in lastMap')
            BY <1>1, <3>1, <3>2, AlarmKinds DEF ToldOnce
        <3>. QED
            BY <3>3, <3>4, <3>5 DEF ToldOnce
    <2>. QED
        BY <2>1, <2>2
<1>6. A!RememberedHasRow'
    BY <1>1 DEF A!RememberedHasRow
<1>. QED
    BY <1>2, <1>3, <1>5, <1>6

\* A poll that saw the battery.
LEMMA PollBmsKeeps ==
    ASSUME AlarmInv, NEW seen_ \in SUBSET Slots, NEW unasked \in SUBSET Warns,
           NEW refused \in SUBSET A!BmsAlarm, A!PollBms(seen_, unasked, refused)
    PROVE  AlarmInv' /\ A!WarnsAreSpaced
<1>. USE AlarmsAssumed DEF AlarmInv
<1>. DEFINE cur     == A!Seen(seen_)
            new     == cur \ (lastBms \cup A!Deduped(cur, unasked))
            written == new \ refused
<1>1. /\ lastBms' = cur \ (new \cap refused)
      /\ A!Write(written, Warns)
      /\ blind' = (blind \ written) \cup (unasked \cap written)
      /\ hidden' = hidden \cup {a \in A!BmsAlarm \ cur : A!IsUp(a, up)}
      /\ UNCHANGED <<up, alarmChanges, lastMap, alarmRestarts>>
    BY DEF A!PollBms, A!NextAlarms
<1>2. cur \subseteq A!BmsAlarm
    BY DEF A!Seen, Places
<1>3. written \in SUBSET A!Alarms
    BY <1>2, AlarmKinds
<1>4. /\ age' \in [A!Alarms -> 0..(Window + 1) \cup {None}]
      /\ toldBms' \in [A!Alarms -> 0..2]
      /\ \A a \in A!Alarms :
            /\ a \in written \/ age[a] # None => age'[a] # None
            /\ toldBms'[a] = IF a \in written /\ A!IsUp(a, up) /\ toldBms[a] < 2
                             THEN toldBms[a] + 1 ELSE toldBms[a]
            /\ toldBms[a] \in 0..2
    BY <1>1, <1>3, WriteKeeps
<1>5. AlarmTypes'
    <2>1. lastBms' \subseteq A!BmsAlarm /\ hidden' \subseteq A!BmsAlarm /\ blind' \subseteq Warns
        BY <1>1, <1>2 DEF AlarmTypes
    <2>. QED
        BY <1>1, <1>4, <2>1 DEF AlarmTypes
<1>6. Places'
    BY <1>1 DEF Places
<1>7. \A a \in cur : A!IsUp(a, up)
    BY DEF A!Seen, A!IsUp, A!Sources
<1>8. ToldOnce'
    <2>1. \A a \in A!Alarms : TellsOfUp(a)'
        BY <1>1, <1>4 DEF ToldOnce, TellsOfUp
    <2>2. ASSUME NEW a \in A!BmsAlarm \ hidden'
          PROVE  toldBms'[a] <= 1 /\ (toldBms'[a] = 1 => a \in lastBms')
        <3>1. a \notin hidden /\ (a \in cur \/ ~A!IsUp(a, up)) /\ a \in A!Alarms
            BY <1>1, AlarmKinds
        <3>2. toldBms[a] <= 1 /\ (toldBms[a] = 1 => a \in lastBms)
            BY <3>1 DEF ToldOnce
        <3>3. CASE a \notin cur
            <4>1. toldBms[a] = 0
                BY <1>4, <3>1, <3>3 DEF ToldOnce, TellsOfUp
            <4>. QED
                BY <1>4, <3>1, <3>3, <4>1
        <3>4. CASE a \in cur /\ a \in lastBms
            BY <1>1, <1>4, <3>1, <3>2, <3>4
        <3>5. CASE a \in cur /\ a \notin lastBms
            <4>1. toldBms[a] = 0
                BY <1>4, <3>1, <3>2, <3>5
            <4>2. a \in new /\ a \in refused => toldBms'[a] = 0
                BY <1>4, <3>1, <4>1
            <4>. QED
                BY <1>1, <1>4, <3>1, <3>5, <4>1, <4>2
        <3>. QED
            BY <3>3, <3>4, <3>5
    <2>3. ASSUME NEW a \in MapAlarms
          PROVE  toldBms'[a] <= 1 /\ (toldBms'[a] = 1 => a \in lastMap')
        <3>1. a \in A!Alarms /\ a \notin written
            BY <1>2, AlarmKinds
        <3>. QED
            BY <1>1, <1>4, <3>1 DEF ToldOnce
    <2>. QED
        BY <2>1, <2>2, <2>3 DEF ToldOnce
<1>9. \A a \in A!Deduped(cur, unasked) : age[a] # None
    BY DEF A!Deduped, A!HasRecentRow
<1>10. A!RememberedHasRow'
    <2>1. ASSUME NEW a \in lastBms' \cup lastMap' PROVE age'[a] # None
        <3>1. a \in A!Alarms
            BY <1>1, <1>2, AlarmKinds DEF AlarmTypes
        <3>2. a \in lastMap \/ a \in lastBms \/ a \in A!Deduped(cur, unasked) \/ a \in written
            BY <1>1
        <3>3. a \in lastMap \/ a \in lastBms => age[a] # None
            BY DEF A!RememberedHasRow
        <3>. QED
            BY <1>4, <1>9, <3>1, <3>2, <3>3
    <2>. QED
        BY <2>1 DEF A!RememberedHasRow
<1>11. A!WarnsAreSpaced
    <2>1. ASSUME NEW a \in Warns, toldBms'[a] > toldBms[a]
          PROVE  age[a] = None \/ age[a] + 1 > Window \/ a \in blind'
        <3>1. a \in A!Alarms /\ a \in written
            BY <1>4, <2>1, AlarmKinds
        <3>2. a \in cur /\ a \notin lastBms /\ a \notin A!Deduped(cur, unasked)
            BY <3>1
        <3>3. a \in unasked \/ ~A!HasRecentRow(a)
            BY <3>2 DEF A!Deduped
        <3>4. CASE a \in unasked
            BY <1>1, <3>1, <3>4
        <3>5. CASE ~A!HasRecentRow(a)
            <4>1. age[a] \in 0..(Window + 1) \cup {None}
                BY <3>1 DEF AlarmTypes
            <4>. QED
                BY <3>5, <4>1 DEF A!HasRecentRow
        <3>. QED
            BY <3>3, <3>4, <3>5
    <2>. QED
        BY <2>1 DEF A!WarnsAreSpaced
<1>. QED
    BY <1>5, <1>6, <1>8, <1>10, <1>11

\* A poll that saw nothing of the battery.
LEMMA PollNothingKeeps ==
    ASSUME AlarmInv, A!PollNothing PROVE AlarmInv' /\ A!WarnsAreSpaced
<1>. USE AlarmsAssumed DEF AlarmInv
<1>1. /\ A!Write({}, Warns)
      /\ UNCHANGED <<up, alarmChanges, lastBms, lastMap, blind, hidden, alarmRestarts>>
    BY DEF A!PollNothing
<1>2. /\ age' \in [A!Alarms -> 0..(Window + 1) \cup {None}]
      /\ toldBms' \in [A!Alarms -> 0..2]
      /\ \A a \in A!Alarms : /\ age[a] # None => age'[a] # None
                             /\ toldBms'[a] = toldBms[a]
                             /\ toldBms[a] \in 0..2
    BY <1>1, WriteKeeps
<1>3. AlarmTypes' /\ Places'
    BY <1>1, <1>2 DEF AlarmTypes, Places
<1>4. ToldOnce'
    BY <1>1, <1>2, AlarmKinds DEF ToldOnce, TellsOfUp
<1>5. A!RememberedHasRow'
    BY <1>1, <1>2, AlarmKinds DEF A!RememberedHasRow, AlarmTypes
<1>6. A!WarnsAreSpaced
    BY <1>2, AlarmKinds DEF A!WarnsAreSpaced
<1>. QED
    BY <1>3, <1>4, <1>5, <1>6

\* A poll of the cells of the MAP.
LEMMA PollCellsKeeps ==
    ASSUME AlarmInv, NEW refused \in SUBSET MapAlarms, A!PollCells(refused)
    PROVE  AlarmInv' /\ A!WarnsAreSpaced
<1>. USE AlarmsAssumed DEF AlarmInv
<1>. DEFINE new     == up["map"] \ lastMap
            written == new \ refused
<1>1. /\ lastMap' = up["map"] \ (new \cap refused)
      /\ A!Write(written, {})
      /\ UNCHANGED <<up, alarmChanges, lastBms, blind, hidden, alarmRestarts>>
    BY DEF A!PollCells, A!NextAlarms
<1>2. written \in SUBSET A!Alarms /\ written \subseteq MapAlarms /\ up["map"] \subseteq MapAlarms
    BY AlarmKinds DEF Places
<1>3. /\ age' \in [A!Alarms -> 0..(Window + 1) \cup {None}]
      /\ toldBms' \in [A!Alarms -> 0..2]
      /\ \A a \in A!Alarms :
            /\ a \in written \/ age[a] # None => age'[a] # None
            /\ toldBms'[a] = IF a \in written /\ A!IsUp(a, up) /\ toldBms[a] < 2
                             THEN toldBms[a] + 1 ELSE toldBms[a]
            /\ toldBms[a] \in 0..2
    BY <1>1, <1>2, WriteKeeps
<1>4. AlarmTypes' /\ Places'
    BY <1>1, <1>2, <1>3 DEF AlarmTypes, Places
<1>5. ToldOnce'
    <2>1. \A a \in A!Alarms : TellsOfUp(a)'
        BY <1>1, <1>3 DEF ToldOnce, TellsOfUp
    <2>2. \A a \in A!BmsAlarm : toldBms'[a] = toldBms[a]
        BY <1>2, <1>3, AlarmKinds
    <2>3. ASSUME NEW a \in MapAlarms
          PROVE  toldBms'[a] <= 1 /\ (toldBms'[a] = 1 => a \in lastMap')
        <3>1. a \in A!Alarms /\ (toldBms[a] > 0 => a \in up["map"])
            BY AlarmKinds, WhereUp DEF ToldOnce, TellsOfUp
        <3>2. toldBms[a] <= 1 /\ (toldBms[a] = 1 => a \in lastMap)
            BY DEF ToldOnce
        <3>3. CASE a \in written
            BY <1>1, <1>3, <3>1, <3>2, <3>3
        <3>4. CASE a \notin written
            BY <1>1, <1>3, <3>1, <3>2, <3>4
        <3>. QED
            BY <3>3, <3>4
    <2>. QED
        BY <1>1, <2>1, <2>2, <2>3 DEF ToldOnce
<1>6. A!RememberedHasRow'
    <2>1. ASSUME NEW a \in lastBms' \cup lastMap' PROVE age'[a] # None
        <3>1. a \in A!Alarms
            BY <1>1, <1>2, AlarmKinds DEF AlarmTypes
        <3>2. a \in lastMap \/ a \in lastBms \/ a \in written
            BY <1>1
        <3>3. a \in lastMap \/ a \in lastBms => age[a] # None
            BY DEF A!RememberedHasRow
        <3>. QED
            BY <1>3, <3>1, <3>2, <3>3
    <2>. QED
        BY <2>1 DEF A!RememberedHasRow
<1>7. A!WarnsAreSpaced
    <2>1. \A a \in Warns : a \in A!Alarms /\ a \notin written
        BY <1>2, AlarmKinds
    <2>. QED
        BY <1>3, <2>1 DEF A!WarnsAreSpaced
<1>. QED
    BY <1>4, <1>5, <1>6, <1>7

\* A step of the alarms keeps the invariant, and writes no row too early.
LEMMA AlarmsStep ==
    ASSUME AlarmInv, [A!Next]_(A!vars) PROVE AlarmInv' /\ A!WarnsAreSpaced
<1>1. CASE A!Restart
    <2>. USE AlarmsAssumed DEF AlarmInv
    <2>1. /\ lastBms' = {} /\ lastMap' = {} /\ toldBms' = [a \in A!Alarms |-> 0]
          /\ alarmRestarts < MaxRestarts /\ alarmRestarts' = alarmRestarts + 1
          /\ UNCHANGED <<up, alarmChanges, age, blind, hidden>>
        BY <1>1 DEF A!Restart, A!Zero
    <2>2. AlarmTypes' /\ Places'
        BY <2>1 DEF AlarmTypes, Places
    <2>3. ToldOnce'
        BY <2>1, AlarmKinds DEF ToldOnce, TellsOfUp
    <2>4. A!RememberedHasRow'
        BY <2>1 DEF A!RememberedHasRow
    <2>5. A!WarnsAreSpaced
        BY <2>1, AlarmKinds DEF A!WarnsAreSpaced, AlarmTypes
    <2>. QED
        BY <2>2, <2>3, <2>4, <2>5
<1>2. CASE UNCHANGED A!vars
    <2>. USE DEF AlarmInv
    <2>1. UNCHANGED <<up, alarmChanges, lastBms, lastMap, age, toldBms, blind, hidden,
                      alarmRestarts>>
        BY <1>2 DEF A!vars
    <2>2. AlarmTypes' /\ Places' /\ ToldOnce' /\ A!RememberedHasRow'
        BY <2>1 DEF AlarmTypes, Places, ToldOnce, TellsOfUp, A!RememberedHasRow
    <2>3. A!WarnsAreSpaced
        BY <2>1, AlarmKinds DEF A!WarnsAreSpaced, AlarmTypes
    <2>. QED
        BY <2>2, <2>3
<1>. QED
    BY <1>1, <1>2, ChangeKeeps, PollBmsKeeps, PollNothingKeeps, PollCellsKeeps DEF A!Next

LEMMA AlarmsTyped == AlarmInv => A!TypeOK
BY DEF AlarmInv, AlarmTypes, A!TypeOK

LEMMA AlarmsOnce == AlarmInv => A!OncePerEpisode
BY AlarmKinds DEF AlarmInv, ToldOnce, A!OncePerEpisode

-----------------------------------------------------------------------------
(* The batteries.                                                          *)

\* What PollersAssumption says of the batteries.
LEMMA BmsAssumed ==
    /\ Ids \subseteq Nat \ {0} /\ IsFiniteSet(Ids) /\ SerialOf \in [Ids -> Batteries]
    /\ Step \in Nat \ {0} /\ MaxTime \in Nat /\ BackoffMax \in Nat \ {0}
    /\ MaxRestarts \in Nat /\ None \notin Bms!Windows
<1>1. \A S : Bms!IsFiniteSet(S) <=> IsFiniteSet(S)
    BY DEF Bms!IsFiniteSet, IsFiniteSet
<1>. QED
    BY <1>1, PollersAssumption DEF Bms!Bms26Assumption

LEMMA BmsCardinality == \A S : Bms!Cardinality(S) = Cardinality(S)
BY DEF Bms!Cardinality, Cardinality

\* Windows follow one another as the moments do.
LEMMA DivBounds ==
    ASSUME NEW n \in Nat, NEW s \in Nat \ {0}
    PROVE  n \div s \in Nat /\ (n \div s) * s <= n /\ n < (n \div s + 1) * s
OBVIOUS

LEMMA Scaled ==
    ASSUME NEW a \in Int, NEW b \in Int, NEW s \in Nat \ {0}, a <= b
    PROVE  a * s <= b * s
OBVIOUS

LEMMA BucketsInOrder ==
    ASSUME NEW t \in Nat, NEW u \in Nat, t <= u
    PROVE  Bms!Bucket(t) \in Nat /\ Bms!Bucket(u) \in Nat /\ Bms!Bucket(t) <= Bms!Bucket(u)
<1>. DEFINE p == t \div Step
            q == u \div Step
<1>1. Step \in Nat \ {0}
    BY BmsAssumed
<1>2. /\ p \in Nat /\ p * Step <= t
      /\ q \in Nat /\ u < (q + 1) * Step
    BY <1>1, DivBounds
<1>3. p <= q
    <2>1. SUFFICES ASSUME q + 1 <= p PROVE FALSE
        BY <1>2
    <2>. HIDE DEF p, q
    <2>2. (q + 1) * Step <= p * Step
        BY <1>1, <1>2, <2>1, Scaled
    <2>3. (q + 1) * Step \in Int /\ p * Step \in Int
        BY <1>1, <1>2
    <2>. QED
        BY <1>2, <2>2, <2>3
<1>. QED
    BY <1>2, <1>3 DEF Bms!Bucket

\* A set of numbers that is not empty has a least one.
LEMMA LeastExists ==
    ASSUME NEW S \in SUBSET Nat, S # {}
    PROVE  Bms!Min(S) \in S /\ \A y \in S : Bms!Min(S) <= y
<1>. DEFINE R == OpToRel(<, Nat)
<1>1. \A x, y \in Nat : <<y, x>> \in R <=> y < x
    BY DEF OpToRel
<1>2. IsWellFoundedOn(R, Nat)
    BY NatLessThanWellFounded
<1>. HIDE DEF R
<1>3. PICK x \in S : \A y \in S : ~(<<y, x>> \in R)
    BY <1>2, WFMin
<1>4. \A y \in S : x <= y
    <2>1. \A y \in S : ~(y < x)
        BY <1>1, <1>3, Zenon
    <2>. QED
        BY <2>1
<1>. QED
    BY <1>4 DEF Bms!Min

\* The poller: types, and back-offs that end.
Patience ==
    /\ clock \in Bms!Times /\ phase \in {"flush", "poll", "add"}
    /\ DOMAIN snaps \subseteq Ids /\ \A i \in DOMAIN snaps : snaps[i] \in BOOLEAN
    /\ listRetry \in Bms!Waits /\ devFail \in [Ids -> Bms!Waits]
    /\ listRetry.until <= clock + BackoffMax
    /\ \A i \in Ids : devFail[i].until <= clock + BackoffMax
    /\ \A i \in DOMAIN snaps : devFail[i] = Bms!NoWait
    /\ bmsRestarts \in 0..MaxRestarts

LEMMA PatienceInit == Bms!Init => Patience
BY BmsAssumed DEF Bms!Init, Patience, Bms!Times, Bms!Waits, Bms!NoWait, Bms!Empty

LEMMA PatienceEnds == Patience => Bms!BackoffEnds
BY DEF Patience, Bms!BackoffEnds

\* A back-off after a failure.
LEMMA FailedWait ==
    ASSUME clock \in Bms!Times, NEW w \in Bms!Waits
    PROVE  Bms!Failed(w) \in Bms!Waits /\ Bms!Failed(w).until <= clock + BackoffMax
<1>. DEFINE next == Bms!NextBackoff(w.backoff)
<1>1. next \in 0..BackoffMax
    BY BmsAssumed DEF Bms!NextBackoff, Bms!Waits
<1>2. Bms!Failed(w) = [until |-> clock + next, backoff |-> next]
    BY DEF Bms!Failed
<1>3. clock + next \in 0..(MaxTime + BackoffMax) /\ clock + next <= clock + BackoffMax
    BY <1>1, BmsAssumed DEF Bms!Times
<1>. HIDE DEF next
<1>. QED
    BY <1>1, <1>2, <1>3 DEF Bms!Waits

LEMMA PatienceStep == Patience /\ [Bms!Next]_(Bms!vars) => Patience'
<1>. SUFFICES ASSUME Patience, [Bms!Next]_(Bms!vars) PROVE Patience'
    OBVIOUS
<1>. USE BmsAssumed
<1>0. Bms!NoWait \in Bms!Waits /\ Bms!NoWait.until = 0
    BY DEF Bms!NoWait, Bms!Waits
<1>1. ASSUME NEW ok \in BOOLEAN, Bms!Flush(ok) PROVE Patience'
    BY <1>1 DEF Bms!Flush, Bms!poller, Patience
<1>2. CASE Bms!PollListFails
    <2>1. /\ listRetry' = Bms!Failed(listRetry) /\ phase' = "flush"
          /\ UNCHANGED <<clock, snaps, devFail, bmsRestarts>>
        BY <1>2 DEF Bms!PollListFails
    <2>2. Bms!Failed(listRetry) \in Bms!Waits /\ Bms!Failed(listRetry).until <= clock + BackoffMax
        BY FailedWait DEF Patience
    <2>. QED
        BY <2>1, <2>2 DEF Patience
<1>3. CASE Bms!PollWaits
    BY <1>3 DEF Bms!PollWaits, Bms!poller, Patience
<1>4. ASSUME NEW listed \in SUBSET Ids, NEW outcome \in [listed -> Bms!Outcomes],
             Bms!PollSlots(listed, outcome)
      PROVE  Patience'
    <2>. DEFINE asked == {i \in listed : clock >= devFail[i].until}
                got   == {i \in asked : outcome[i] \in {"fresh", "stale"}}
                wait(i) == IF i \in asked THEN Bms!SlotWait(i, outcome[i]) ELSE devFail[i]
    <2>1. /\ listRetry' = Bms!NoWait
          /\ devFail' = [i \in Ids |-> wait(i)]
          /\ snaps' = [i \in got |-> outcome[i] = "stale"]
          /\ phase' = IF got = {} THEN "flush" ELSE "add"
          /\ UNCHANGED <<clock, bmsRestarts>>
        BY <1>4 DEF Bms!PollSlots
    <2>2. ASSUME NEW i \in Ids
          PROVE  wait(i) \in Bms!Waits /\ wait(i).until <= clock + BackoffMax
        <3>1. devFail[i] \in Bms!Waits /\ devFail[i].until <= clock + BackoffMax
            BY DEF Patience
        <3>2. Bms!Failed(devFail[i]) \in Bms!Waits
              /\ Bms!Failed(devFail[i]).until <= clock + BackoffMax
            BY <3>1, FailedWait DEF Patience
        <3>3. Bms!NoWait.until <= clock + BackoffMax
            BY <1>0 DEF Patience, Bms!Times
        <3>. QED
            BY <1>0, <3>1, <3>2, <3>3 DEF Bms!SlotWait
    <2>3. ASSUME NEW i \in got PROVE i \in Ids /\ wait(i) = Bms!NoWait
        BY <2>2 DEF Bms!SlotWait
    <2>. HIDE DEF wait, got
    <2>4. devFail' \in [Ids -> Bms!Waits] /\ \A i \in Ids : devFail'[i].until <= clock + BackoffMax
        BY <2>1, <2>2
    <2>5. DOMAIN snaps' = got /\ \A i \in got : snaps'[i] \in BOOLEAN /\ devFail'[i] = Bms!NoWait
        BY <2>1, <2>3
    <2>6. listRetry'.until <= clock + BackoffMax
        BY <1>0, <2>1 DEF Patience, Bms!Times
    <2>. QED
        BY <1>0, <2>1, <2>3, <2>4, <2>5, <2>6 DEF Patience
<1>5. CASE Bms!Add
    BY <1>5 DEF Bms!Add, Bms!poller, Bms!Empty, Patience
<1>6. CASE Bms!Tick
    <2>1. /\ clock < MaxTime /\ clock' = clock + 1
          /\ UNCHANGED <<phase, snaps, listRetry, devFail, bmsRestarts>>
        BY <1>6 DEF Bms!Tick, Bms!poller
    <2>2. /\ clock' \in Bms!Times /\ clock \in Int
          /\ listRetry.until \in Int /\ \A i \in Ids : devFail[i].until \in Int
        BY <2>1 DEF Patience, Bms!Times, Bms!Waits
    <2>3. /\ listRetry.until <= clock' + BackoffMax
          /\ \A i \in Ids : devFail[i].until <= clock' + BackoffMax
        BY <2>1, <2>2 DEF Patience
    <2>. QED
        BY <2>1, <2>2, <2>3 DEF Patience
<1>7. CASE Bms!Restart
    <2>1. /\ phase' = "flush" /\ snaps' = Bms!Empty /\ listRetry' = Bms!NoWait
          /\ devFail' = [i \in Ids |-> Bms!NoWait] /\ clock' = clock
          /\ bmsRestarts < MaxRestarts /\ bmsRestarts' = bmsRestarts + 1
        BY <1>7 DEF Bms!Restart
    <2>2. 0 <= clock + BackoffMax
        BY DEF Patience, Bms!Times
    <2>. QED
        BY <1>0, <2>1, <2>2 DEF Patience, Bms!Empty
<1>8. CASE UNCHANGED Bms!vars
    BY <1>8 DEF Bms!vars, Bms!poller, Patience
<1>. QED
    BY <1>1, <1>2, <1>3, <1>4, <1>5, <1>6, <1>7, <1>8 DEF Bms!Next

\* The points of a battery in its open bucket, if that is bucket b.
Held(s, b) == IF open[s] # None /\ open[s].bucket = b THEN open[s].n ELSE 0

\* Every point is in one place, and the places follow the clock: rows are of
\* windows before the one of the last flush, what is open or waits is not.
Ledger ==
    /\ clock \in Bms!Times /\ ticked \in Bms!Times /\ ticked <= clock
    /\ open \in [Batteries -> Bms!Windows \cup {None}]
    /\ pending \in [Bms!Keys -> Nat] /\ averages \in [Bms!Keys -> Nat]
    /\ added \in [Bms!Keys -> Nat] /\ lost \in [Bms!Keys -> Nat]
    /\ \A s \in Batteries : open[s] # None =>
          Bms!Bucket(ticked) <= open[s].bucket /\ open[s].bucket <= Bms!Bucket(clock)
    /\ \A s \in Batteries, b \in Bms!Buckets :
          LET k == <<s, b>> IN
          /\ pending[k] > 0 => Bms!Bucket(ticked) <= b /\ b < Bms!Bucket(clock)
          /\ averages[k] > 0 => b < Bms!Bucket(ticked)
          /\ added[k] = averages[k] + pending[k] + lost[k] + Held(s, b)

LEMMA BucketOfTime ==
    ASSUME NEW t \in Bms!Times PROVE Bms!Bucket(t) \in Bms!Buckets /\ Bms!Bucket(t) \in Nat
BY BmsAssumed, BucketsInOrder DEF Bms!Times, Bms!Buckets

LEMMA HeldType ==
    ASSUME open \in [Batteries -> Bms!Windows \cup {None}], NEW s \in Batteries, NEW b
    PROVE  Held(s, b) \in Nat
BY DEF Held, Bms!Windows

\* What the model's sum over a set of batteries says of one key.
LEMMA PointsOfKey ==
    ASSUME NEW S, NEW s \in Batteries, NEW b \in Bms!Buckets
    PROVE  Bms!Points(S)[<<s, b>>] = IF s \in S /\ open[s].bucket = b THEN open[s].n ELSE 0
BY DEF Bms!Points, Bms!Keys

LEMMA LedgerInit == Bms!Init => Ledger
<1>. SUFFICES ASSUME Bms!Init PROVE Ledger
    OBVIOUS
<1>1. /\ clock = 0 /\ ticked = 0 /\ open = [s \in Batteries |-> None]
      /\ pending = Bms!Nowhere /\ averages = Bms!Nowhere /\ added = Bms!Nowhere
      /\ lost = Bms!Nowhere
    BY DEF Bms!Init
<1>2. Bms!Nowhere \in [Bms!Keys -> Nat]
    BY DEF Bms!Nowhere
<1>3. 0 \in Bms!Times /\ \A s \in Batteries : open[s] = None
    BY <1>1, BmsAssumed DEF Bms!Times
<1>4. ASSUME NEW s \in Batteries, NEW b \in Bms!Buckets
      PROVE  Bms!Nowhere[<<s, b>>] = 0 /\ Held(s, b) = 0
    BY <1>3 DEF Bms!Nowhere, Bms!Keys, Held
<1>. QED
    BY <1>1, <1>2, <1>3, <1>4 DEF Ledger

\* The model's own words for the invariant.
LEMMA LedgerAddsUp == Ledger => Bms!EveryPointOnce
<1>. SUFFICES ASSUME Ledger, NEW k \in Bms!Keys
     PROVE  added[k] = averages[k] + pending[k] + lost[k]
                       + Bms!Points({s \in Batteries : open[s] # None})[k]
    BY DEF Bms!EveryPointOnce
<1>1. PICK s \in Batteries, b \in Bms!Buckets : k = <<s, b>>
    BY DEF Bms!Keys
<1>2. Bms!Points({x \in Batteries : open[x] # None})[k] = Held(s, b)
    BY <1>1, PointsOfKey DEF Held
<1>. QED
    BY <1>1, <1>2 DEF Ledger

\* The amounts of one battery and bucket.
LEMMA LedgerOf ==
    ASSUME Ledger, NEW s \in Batteries, NEW b \in Bms!Buckets
    PROVE  /\ <<s, b>> \in Bms!Keys
           /\ pending[<<s, b>>] \in Nat /\ averages[<<s, b>>] \in Nat
           /\ added[<<s, b>>] \in Nat /\ lost[<<s, b>>] \in Nat /\ Held(s, b) \in Nat
           /\ pending[<<s, b>>] > 0 => Bms!Bucket(ticked) <= b /\ b < Bms!Bucket(clock)
           /\ averages[<<s, b>>] > 0 => b < Bms!Bucket(ticked)
           /\ added[<<s, b>>] = averages[<<s, b>>] + pending[<<s, b>>] + lost[<<s, b>>] + Held(s, b)
           /\ Held(s, b) > 0 => Bms!Bucket(ticked) <= b /\ b <= Bms!Bucket(clock)
<1>1. <<s, b>> \in Bms!Keys
    BY DEF Bms!Keys
<1>2. Held(s, b) \in Nat
    BY HeldType DEF Ledger
<1>3. Held(s, b) > 0 => open[s] # None /\ open[s].bucket = b
    BY DEF Held
<1>4. open[s] # None => Bms!Bucket(ticked) <= open[s].bucket /\ open[s].bucket <= Bms!Bucket(clock)
    BY DEF Ledger
<1>5. Held(s, b) > 0 => Bms!Bucket(ticked) <= b /\ b <= Bms!Bucket(clock)
    BY <1>3, <1>4
<1>6. /\ pending[<<s, b>>] > 0 => Bms!Bucket(ticked) <= b /\ b < Bms!Bucket(clock)
      /\ averages[<<s, b>>] > 0 => b < Bms!Bucket(ticked)
      /\ added[<<s, b>>] = averages[<<s, b>>] + pending[<<s, b>>] + lost[<<s, b>>] + Held(s, b)
    BY DEF Ledger
<1>7. /\ pending[<<s, b>>] \in Nat /\ averages[<<s, b>>] \in Nat
      /\ added[<<s, b>>] \in Nat /\ lost[<<s, b>>] \in Nat
    BY <1>1 DEF Ledger
<1>. QED
    BY <1>1, <1>2, <1>5, <1>6, <1>7

LEMMA PlusOf ==
    ASSUME NEW f, NEW g, NEW k \in Bms!Keys PROVE Bms!Plus(f, g)[k] = f[k] + g[k]
BY DEF Bms!Plus

LEMMA PlusType ==
    ASSUME NEW f, NEW g, \A k \in Bms!Keys : f[k] + g[k] \in Nat
    PROVE  Bms!Plus(f, g) \in [Bms!Keys -> Nat]
BY DEF Bms!Plus

\* Points come in: at the moment after the poll, into the bucket of that moment.
LEMMA AddKeeps ==
    ASSUME Ledger, NEW n \in [Batteries -> Nat], Bms!AddPoints(n),
           added' = Bms!Plus(added, [k \in Bms!Keys |->
                        IF k[2] = Bms!Bucket(clock) THEN n[k[1]] ELSE 0]),
           UNCHANGED <<clock, ticked, averages, lost>>
    PROVE  Ledger'
<1>. DEFINE now == Bms!Bucket(clock)
            hit == {s \in Batteries : n[s] > 0}
            out == {s \in hit : open[s] # None /\ open[s].bucket # now}
            new(s) == [bucket |-> now,
                       n |-> n[s] + IF open[s] # None /\ open[s].bucket = now THEN open[s].n ELSE 0]
<1>1. now \in Bms!Buckets /\ now \in Nat /\ Bms!Bucket(ticked) \in Nat /\ Bms!Bucket(ticked) <= now
    BY BucketOfTime, BucketsInOrder, BmsAssumed DEF Ledger, Bms!Times
<1>. HIDE DEF now
<1>2. /\ open' = [s \in Batteries |-> IF s \notin hit THEN open[s] ELSE new(s)]
      /\ pending' = Bms!Plus(pending, Bms!Points(out))
    BY DEF Bms!AddPoints, now
<1>3. ASSUME NEW s \in Batteries, s \in hit
      PROVE  new(s) \in Bms!Windows /\ new(s) # None
    BY <1>1, <1>3, BmsAssumed DEF Ledger, Bms!Windows
<1>4. open' \in [Batteries -> Bms!Windows \cup {None}]
    <2>. HIDE DEF new, hit
    <2>. QED
        BY <1>2, <1>3 DEF Ledger
<1>5. ASSUME NEW s \in Batteries, NEW b \in Bms!Buckets, NEW k, k = <<s, b>>
      PROVE  /\ pending'[k] \in Nat /\ added'[k] \in Nat
             /\ open'[s] # None => Bms!Bucket(ticked) <= open'[s].bucket /\ open'[s].bucket <= now
             /\ pending'[k] > 0 => Bms!Bucket(ticked) <= b /\ b < now
             /\ added'[k] = averages[k] + pending'[k] + lost[k] + Held(s, b)'
    <2>1. /\ k \in Bms!Keys
          /\ pending[k] \in Nat /\ averages[k] \in Nat /\ added[k] \in Nat /\ lost[k] \in Nat
          /\ Held(s, b) \in Nat
          /\ pending[k] > 0 => Bms!Bucket(ticked) <= b /\ b < now
          /\ added[k] = averages[k] + pending[k] + lost[k] + Held(s, b)
          /\ Held(s, b) > 0 => Bms!Bucket(ticked) <= b /\ b <= now
        BY <1>5, LedgerOf DEF now
    <2>2. added'[k] = added[k] + (IF b = now THEN n[s] ELSE 0)
        <3>1. k[1] = s /\ k[2] = b
            BY <1>5
        <3>. QED
            BY <2>1, <3>1, PlusOf DEF now
    <2>3. pending'[k] = pending[k] + (IF s \in out THEN Held(s, b) ELSE 0)
        <3>1. Bms!Points(out)[k] = IF s \in out /\ open[s].bucket = b THEN open[s].n ELSE 0
            BY <1>5, PointsOfKey
        <3>2. Bms!Points(out)[k] = IF s \in out THEN Held(s, b) ELSE 0
            BY <3>1 DEF Held
        <3>. QED
            BY <1>2, <2>1, <3>2, PlusOf
    <2>4. n[s] \in Nat
        OBVIOUS
    <2>5. CASE s \notin hit
        <3>1. open'[s] = open[s] /\ n[s] = 0 /\ s \notin out
            BY <1>2, <2>4, <2>5
        <3>2. Held(s, b)' = Held(s, b)
            BY <3>1 DEF Held
        <3>3. open[s] # None => Bms!Bucket(ticked) <= open[s].bucket /\ open[s].bucket <= now
            BY DEF Ledger, now
        <3>. HIDE DEF hit, out
        <3>. QED
            BY <2>1, <2>2, <2>3, <3>1, <3>2, <3>3
    <2>6. CASE s \in hit
        <3>1. open'[s] = new(s) /\ open'[s] # None
            BY <1>2, <1>3, <2>6
        <3>2. Held(s, b)' = IF now = b THEN n[s] + Held(s, b) ELSE 0
            BY <3>1 DEF Held
        <3>3. s \in out => now # open[s].bucket /\ open[s] # None
            OBVIOUS
        <3>4. s \in out /\ b = now => Held(s, b) = 0
            BY <3>3 DEF Held
        <3>5. s \notin out /\ b # now => Held(s, b) = 0
            BY <2>6 DEF Held
        <3>6. open'[s].bucket = now
            BY <3>1
        <3>. HIDE DEF hit, out, new
        <3>7. averages'[k] = averages[k] /\ lost'[k] = lost[k]
            OBVIOUS
        <3>8. pending'[k] \in Nat /\ added'[k] \in Nat
            BY <2>1, <2>2, <2>3, <2>4
        <3>9. CASE b = now
            BY <1>1, <2>1, <2>2, <2>3, <2>4, <3>2, <3>4, <3>6, <3>7, <3>8, <3>9
        <3>10. CASE b # now
            BY <1>1, <2>1, <2>2, <2>3, <2>4, <3>2, <3>5, <3>6, <3>7, <3>8, <3>10
        <3>. QED
            BY <3>9, <3>10
    <2>. QED
        BY <2>5, <2>6
<1>6. pending' \in [Bms!Keys -> Nat] /\ added' \in [Bms!Keys -> Nat]
    <2>1. ASSUME NEW k \in Bms!Keys PROVE pending'[k] \in Nat /\ added'[k] \in Nat
        <3>1. PICK s \in Batteries, b \in Bms!Buckets : k = <<s, b>>
            BY DEF Bms!Keys
        <3>. QED
            BY <1>5, <3>1
    <2>. QED
        BY <1>2, <2>1 DEF Bms!Plus
<1>7. \A s \in Batteries : open'[s] # None =>
         Bms!Bucket(ticked) <= open'[s].bucket /\ open'[s].bucket <= now
    BY <1>1, <1>5
<1>. QED
    BY <1>4, <1>5, <1>6, <1>7 DEF Ledger, now

\* What is closed goes into rows, each for the first time, or is lost.
LEMMA FlushKeeps ==
    ASSUME Ledger, NEW ok \in BOOLEAN, Bms!Flush(ok)
    PROVE  Ledger' /\ Bms!RowsAreFinal
<1>. DEFINE now  == Bms!Bucket(clock)
            done == {s \in Batteries : open[s] # None /\ Bms!Closed(open[s].bucket)}
            pts  == Bms!Plus(pending, Bms!Points(done))
<1>1. now \in Bms!Buckets /\ now \in Nat /\ Bms!Bucket(ticked) \in Nat /\ Bms!Bucket(ticked) <= now
    BY BucketOfTime, BucketsInOrder, BmsAssumed DEF Ledger, Bms!Times
<1>2. \A s \in Batteries : s \in done <=> open[s] # None /\ open[s].bucket < now
    BY DEF Bms!Closed
<1>3. /\ clock > ticked /\ ticked' = clock /\ UNCHANGED <<clock, added>>
      /\ open' = [s \in Batteries |-> IF s \in done THEN None ELSE open[s]]
      /\ pending' = Bms!Nowhere
      /\ IF ok THEN /\ averages' = [k \in Bms!Keys |-> IF pts[k] > 0 THEN pts[k] ELSE averages[k]]
                    /\ UNCHANGED lost
               ELSE /\ lost' = Bms!Plus(lost, pts)
                    /\ UNCHANGED averages
    BY DEF Bms!Flush
<1>4. open' \in [Batteries -> Bms!Windows \cup {None}]
    BY <1>3 DEF Ledger
<1>5. ASSUME NEW s \in Batteries, NEW b \in Bms!Buckets, NEW k, k = <<s, b>>
      PROVE  /\ averages'[k] \in Nat /\ lost'[k] \in Nat /\ pending'[k] = 0
             /\ averages'[k] > 0 => b < now
             /\ added[k] = averages'[k] + pending'[k] + lost'[k] + Held(s, b)'
             /\ averages'[k] # averages[k] => averages[k] = 0 /\ b < now
    <2>1. /\ k \in Bms!Keys
          /\ pending[k] \in Nat /\ averages[k] \in Nat /\ added[k] \in Nat /\ lost[k] \in Nat
          /\ Held(s, b) \in Nat
          /\ pending[k] > 0 => Bms!Bucket(ticked) <= b /\ b < now
          /\ averages[k] > 0 => b < Bms!Bucket(ticked)
          /\ added[k] = averages[k] + pending[k] + lost[k] + Held(s, b)
          /\ Held(s, b) > 0 => Bms!Bucket(ticked) <= b /\ b <= now
        BY <1>5, LedgerOf
    <2>2. pending'[k] = 0
        BY <1>3, <2>1 DEF Bms!Nowhere
    <2>. DEFINE given == IF s \in done THEN Held(s, b) ELSE 0
    <2>3. pts[k] = pending[k] + given
        <3>1. Bms!Points(done)[k] = given
            BY <1>5, PointsOfKey DEF Held
        <3>. QED
            BY <2>1, <3>1, PlusOf
    <2>4. Held(s, b)' = IF s \in done THEN 0 ELSE Held(s, b)
        BY <1>3 DEF Held
    <2>5. given > 0 => b < now
        BY <1>2 DEF Held
    <2>6. b \in Nat
        BY DEF Bms!Buckets
    <2>7. CASE ok
        <3>1. averages'[k] = (IF pts[k] > 0 THEN pts[k] ELSE averages[k]) /\ lost'[k] = lost[k]
            BY <1>3, <2>1, <2>7
        <3>. HIDE DEF pts, done, now
        <3>. QED
            BY <1>1, <2>1, <2>2, <2>3, <2>4, <2>5, <2>6, <3>1
    <2>8. CASE ~ok
        <3>1. averages'[k] = averages[k] /\ lost'[k] = lost[k] + pts[k]
            BY <1>3, <2>1, <2>8, PlusOf
        <3>. HIDE DEF pts, done, now
        <3>. QED
            BY <1>1, <2>1, <2>2, <2>3, <2>4, <2>5, <2>6, <3>1
    <2>. QED
        BY <2>7, <2>8
<1>6. \A k \in Bms!Keys : averages'[k] \in Nat /\ lost'[k] \in Nat
    <2>1. ASSUME NEW k \in Bms!Keys PROVE averages'[k] \in Nat /\ lost'[k] \in Nat
        <3>1. PICK s \in Batteries, b \in Bms!Buckets : k = <<s, b>>
            BY DEF Bms!Keys
        <3>. QED
            BY <1>5, <3>1
    <2>. QED
        BY <2>1
<1>7. averages' \in [Bms!Keys -> Nat] /\ lost' \in [Bms!Keys -> Nat]
    <2>1. averages' = [k \in Bms!Keys |-> averages'[k]] /\ lost' = [k \in Bms!Keys |-> lost'[k]]
        <3>1. CASE ok
            BY <1>3, <3>1 DEF Ledger
        <3>2. CASE ~ok
            BY <1>3, <3>2 DEF Ledger, Bms!Plus
        <3>. QED
            BY <3>1, <3>2
    <2>. QED
        BY <1>6, <2>1
<1>8. pending' \in [Bms!Keys -> Nat]
    BY <1>3 DEF Bms!Nowhere
<1>9. \A s \in Batteries : open'[s] # None => now <= open'[s].bucket /\ open'[s].bucket <= now
    <2>1. ASSUME NEW s \in Batteries, open'[s] # None
          PROVE  now <= open'[s].bucket /\ open'[s].bucket <= now
        <3>1. s \notin done /\ open'[s] = open[s]
            BY <1>3, <2>1
        <3>2. open[s].bucket \in Nat /\ open[s].bucket <= now
            BY <2>1, <3>1 DEF Ledger, Bms!Windows, Bms!Buckets
        <3>. QED
            BY <1>1, <1>2, <2>1, <3>1, <3>2
    <2>. QED
        BY <2>1
<1>10. Ledger'
    <2>1. Bms!Bucket(clock') = now /\ Bms!Bucket(ticked') = now
        BY <1>3
    <2>2. clock' \in Bms!Times /\ ticked' \in Bms!Times /\ ticked' <= clock' /\ added' = added
        BY <1>3 DEF Ledger, Bms!Times
    <2>. HIDE DEF now
    <2>3. ASSUME NEW s \in Batteries, NEW b \in Bms!Buckets
          PROVE  /\ ~(pending'[<<s, b>>] > 0)
                 /\ averages'[<<s, b>>] > 0 => b < now
                 /\ added'[<<s, b>>] = averages'[<<s, b>>] + pending'[<<s, b>>]
                                       + lost'[<<s, b>>] + Held(s, b)'
        <3>1. ASSUME NEW n, n = 0 PROVE ~(n > 0)
            BY <3>1
        <3>. QED
            BY <1>5, <2>2, <3>1
    <2>. QED
        BY <1>4, <1>7, <1>8, <1>9, <2>1, <2>2, <2>3 DEF Ledger
<1>11. Bms!RowsAreFinal
    <2>1. ASSUME NEW k \in Bms!Keys, averages'[k] # averages[k]
          PROVE  averages[k] = 0 /\ k[2] < now
        <3>1. PICK s \in Batteries, b \in Bms!Buckets : k = <<s, b>>
            BY DEF Bms!Keys
        <3>. QED
            BY <1>5, <2>1, <3>1
    <2>. QED
        BY <2>1 DEF Bms!RowsAreFinal
<1>. QED
    BY <1>10, <1>11

\* A stop loses what is open or waits.
LEMMA StopKeeps == ASSUME Ledger, Bms!Restart PROVE Ledger'
<1>. DEFINE held == {s \in Batteries : open[s] # None}
            gone == Bms!Plus(pending, Bms!Points(held))
<1>1. /\ lost' = Bms!Plus(lost, gone) /\ open' = [s \in Batteries |-> None]
      /\ pending' = Bms!Nowhere /\ UNCHANGED <<clock, ticked, averages, added>>
    BY DEF Bms!Restart
<1>2. ASSUME NEW s \in Batteries, NEW b \in Bms!Buckets, NEW k, k = <<s, b>>
      PROVE  /\ lost'[k] \in Nat /\ pending'[k] = 0
             /\ added[k] = averages[k] + pending'[k] + lost'[k] + Held(s, b)'
    <2>1. /\ k \in Bms!Keys
          /\ pending[k] \in Nat /\ averages[k] \in Nat /\ added[k] \in Nat /\ lost[k] \in Nat
          /\ Held(s, b) \in Nat
          /\ added[k] = averages[k] + pending[k] + lost[k] + Held(s, b)
        BY <1>2, LedgerOf
    <2>2. gone[k] = pending[k] + Held(s, b)
        <3>1. Bms!Points(held)[k] = Held(s, b)
            BY <1>2, PointsOfKey DEF Held
        <3>. QED
            BY <2>1, <3>1, PlusOf
    <2>3. lost'[k] = lost[k] + gone[k] /\ pending'[k] = 0 /\ Held(s, b)' = 0
        BY <1>1, <2>1, PlusOf DEF Bms!Nowhere, Held
    <2>. HIDE DEF gone
    <2>. QED
        BY <2>1, <2>2, <2>3
<1>3. lost' \in [Bms!Keys -> Nat] /\ pending' \in [Bms!Keys -> Nat]
    <2>1. ASSUME NEW k \in Bms!Keys PROVE lost'[k] \in Nat
        <3>1. PICK s \in Batteries, b \in Bms!Buckets : k = <<s, b>>
            BY DEF Bms!Keys
        <3>. QED
            BY <1>2, <3>1
    <2>2. lost' = [k \in Bms!Keys |-> lost'[k]]
        BY <1>1 DEF Bms!Plus
    <2>3. pending' \in [Bms!Keys -> Nat]
        BY <1>1 DEF Bms!Nowhere
    <2>. QED
        BY <2>1, <2>2, <2>3
<1>4. open' \in [Batteries -> Bms!Windows \cup {None}] /\ \A s \in Batteries : open'[s] = None
    BY <1>1
<1>. QED
    BY <1>1, <1>2, <1>3, <1>4 DEF Ledger

LEMMA TickKeeps == ASSUME Ledger, Bms!Tick PROVE Ledger'
<1>1. /\ clock < MaxTime /\ clock' = clock + 1
      /\ UNCHANGED <<ticked, open, pending, averages, added, lost>>
    BY DEF Bms!Tick, Bms!acc
<1>2. clock' \in Bms!Times /\ ticked <= clock' /\ clock \in Nat /\ clock' \in Nat /\ clock <= clock'
    BY <1>1, BmsAssumed DEF Ledger, Bms!Times
<1>3. /\ Bms!Bucket(clock) \in Int /\ Bms!Bucket(clock') \in Int
      /\ Bms!Bucket(clock) <= Bms!Bucket(clock')
    BY <1>2, BucketsInOrder
<1>4. \A b : b \in Bms!Buckets => b \in Int
    BY DEF Bms!Buckets
<1>5. \A s \in Batteries : open[s] # None => open[s].bucket \in Int
    BY <1>4 DEF Ledger, Bms!Windows
<1>6. Bms!Bucket(clock)' = Bms!Bucket(clock')
    BY DEF Bms!Bucket
<1>7. ASSUME NEW s \in Batteries, NEW b \in Bms!Buckets PROVE Held(s, b)' = Held(s, b)
    BY <1>1 DEF Held
<1>8. \A s \in Batteries : open'[s] # None =>
         Bms!Bucket(ticked') <= open'[s].bucket /\ open'[s].bucket <= Bms!Bucket(clock')
    BY <1>1, <1>3, <1>5 DEF Ledger
<1>9. ASSUME NEW s \in Batteries, NEW b \in Bms!Buckets, pending[<<s, b>>] > 0
      PROVE  Bms!Bucket(ticked) <= b /\ b < Bms!Bucket(clock')
    BY <1>3, <1>4, <1>9, LedgerOf
<1>. QED
    BY <1>1, <1>2, <1>7, <1>8, <1>9 DEF Ledger

Page == shown \in [Batteries -> [id : Ids, stale : BOOLEAN] \cup {None}]

BmsInv == Patience /\ Ledger /\ Page

LEMMA BmsInitially == Bms!Init => BmsInv
BY PatienceInit, LedgerInit DEF BmsInv, Page, Bms!Init

\* The slots of one serial number that gave a snapshot, and the fresh of them.
GivenBy(s) == {i \in DOMAIN snaps : SerialOf[i] = s}
FreshOf(s) == {i \in DOMAIN snaps : SerialOf[i] = s /\ ~snaps[i]}

LEMMA FreshCount ==
    ASSUME Patience, NEW s
    PROVE  /\ Bms!Cardinality(FreshOf(s)) \in Nat
           /\ FreshOf(s) # {} => Bms!Cardinality(FreshOf(s)) > 0
<1>1. FreshOf(s) \in SUBSET Ids
    BY DEF FreshOf, Patience
<1>2. IsFiniteSet(FreshOf(s))
    BY <1>1, BmsAssumed, FS_Subset
<1>3. Cardinality(FreshOf(s)) \in Nat
    BY <1>2, FS_CardinalityType
<1>4. Cardinality(FreshOf(s)) = 0 <=> FreshOf(s) = {}
    BY <1>2, FS_EmptySet
<1>. QED
    BY <1>3, <1>4, BmsCardinality

LEMMA LowestSlot ==
    ASSUME Patience, NEW s, GivenBy(s) # {}
    PROVE  Bms!ShownSlot(s) \in GivenBy(s) /\ \A i \in GivenBy(s) : Bms!ShownSlot(s) <= i
<1>1. GivenBy(s) \in SUBSET Nat
    BY BmsAssumed DEF GivenBy, Patience
<1>. QED
    BY <1>1, LeastExists DEF GivenBy, Bms!ShownSlot

\* The end of an iteration.
LEMMA AddStep ==
    ASSUME Patience, Ledger, Page, Bms!Add
    PROVE  Ledger' /\ Page' /\ Bms!ShownIsMeasured
<1>. DEFINE n == [s \in Batteries |-> Bms!Cardinality(FreshOf(s))]
            now == Bms!Bucket(clock)
<1>1. n \in [Batteries -> Nat]
    BY FreshCount
<1>2. /\ Bms!AddPoints(n)
      /\ added' = Bms!Plus(added, [k \in Bms!Keys |-> IF k[2] = now THEN n[k[1]] ELSE 0])
      /\ shown' = [s \in Batteries |->
            IF \E i \in DOMAIN snaps : SerialOf[i] = s
            THEN [id |-> Bms!ShownSlot(s), stale |-> snaps[Bms!ShownSlot(s)]] ELSE shown[s]]
      /\ UNCHANGED <<clock, ticked, averages, lost>>
    BY DEF Bms!Add, FreshOf
<1>3. Ledger'
    BY <1>1, <1>2, AddKeeps
<1>4. ASSUME NEW s \in Batteries, GivenBy(s) # {}
      PROVE  /\ shown'[s] = [id |-> Bms!ShownSlot(s), stale |-> snaps[Bms!ShownSlot(s)]]
             /\ Bms!ShownSlot(s) \in GivenBy(s) /\ \A i \in GivenBy(s) : Bms!ShownSlot(s) <= i
             /\ Bms!ShownSlot(s) \in Ids /\ snaps[Bms!ShownSlot(s)] \in BOOLEAN
    <2>1. \E i \in DOMAIN snaps : SerialOf[i] = s
        BY <1>4 DEF GivenBy
    <2>2. Bms!ShownSlot(s) \in GivenBy(s) /\ \A i \in GivenBy(s) : Bms!ShownSlot(s) <= i
        BY <1>4, LowestSlot
    <2>3. Bms!ShownSlot(s) \in DOMAIN snaps
        BY <2>2 DEF GivenBy
    <2>. QED
        BY <1>2, <2>1, <2>2, <2>3 DEF Patience
<1>5. Page'
    <2>1. \A s \in Batteries : shown'[s] \in [id : Ids, stale : BOOLEAN] \cup {None}
        <3>1. ASSUME NEW s \in Batteries, GivenBy(s) = {} PROVE shown'[s] = shown[s]
            BY <1>2, <3>1 DEF GivenBy
        <3>2. ASSUME NEW s \in Batteries, GivenBy(s) # {}
              PROVE  shown'[s] \in [id : Ids, stale : BOOLEAN]
            <4>1. ASSUME NEW x \in Ids, NEW y \in BOOLEAN
                  PROVE  [id |-> x, stale |-> y] \in [id : Ids, stale : BOOLEAN]
                OBVIOUS
            <4>2. /\ Bms!ShownSlot(s) \in Ids /\ snaps[Bms!ShownSlot(s)] \in BOOLEAN
                  /\ shown'[s] = [id |-> Bms!ShownSlot(s), stale |-> snaps[Bms!ShownSlot(s)]]
                BY <1>4, <3>2, Zenon
            <4>3. [id |-> Bms!ShownSlot(s), stale |-> snaps[Bms!ShownSlot(s)]]
                     \in [id : Ids, stale : BOOLEAN]
                BY <4>1, <4>2, Zenon
            <4>. QED
                BY <4>2, <4>3, Zenon
        <3>3. \A s \in Batteries : shown[s] \in [id : Ids, stale : BOOLEAN] \cup {None}
            BY DEF Page
        <3>. QED
            BY <3>1, <3>2, <3>3
    <2>2. shown' = [s \in Batteries |-> shown'[s]]
        BY <1>2
    <2>. QED
        BY <2>1, <2>2 DEF Page
<1>6. ASSUME NEW i \in DOMAIN snaps
      PROVE  LET s == SerialOf[i] IN
             /\ shown'[s].id <= i
             /\ ~shown'[s].stale => added'[<<s, now>>] > added[<<s, now>>]
    <2>. DEFINE s == SerialOf[i]
    <2>1. s \in Batteries /\ i \in GivenBy(s)
        BY BmsAssumed DEF GivenBy, Patience
    <2>2. /\ shown'[s] = [id |-> Bms!ShownSlot(s), stale |-> snaps[Bms!ShownSlot(s)]]
          /\ Bms!ShownSlot(s) \in GivenBy(s) /\ Bms!ShownSlot(s) <= i
        BY <1>4, <2>1
    <2>3. ASSUME ~shown'[s].stale PROVE added'[<<s, now>>] > added[<<s, now>>]
        <3>1. Bms!ShownSlot(s) \in FreshOf(s)
            BY <2>2, <2>3 DEF FreshOf, GivenBy
        <3>2. n[s] \in Nat /\ n[s] > 0
            BY <2>1, <3>1, FreshCount
        <3>3. now \in Bms!Buckets /\ <<s, now>> \in Bms!Keys
            BY <2>1, BucketOfTime DEF Ledger, Bms!Keys
        <3>4. added[<<s, now>>] \in Nat
            BY <3>3 DEF Ledger
        <3>. HIDE DEF n, now, s
        <3>5. added'[<<s, now>>] = added[<<s, now>>] + n[s]
            BY <1>2, <3>3, PlusOf
        <3>. QED
            BY <3>2, <3>4, <3>5
    <2>. QED
        BY <2>2, <2>3
<1>7. Bms!ShownIsMeasured
    BY <1>6 DEF Bms!ShownIsMeasured
<1>. QED
    BY <1>3, <1>5, <1>7

\* A step of the batteries keeps the invariant, and does what it may.
LEMMA BmsStep ==
    ASSUME BmsInv, [Bms!Next]_(Bms!vars)
    PROVE  BmsInv' /\ Bms!RowsAreFinal /\ Bms!ShownIsMeasured
<1>0. Ledger' /\ Page' => BmsInv'
    BY PatienceStep DEF BmsInv
<1>1. shown' = shown => Page' /\ Bms!ShownIsMeasured
    BY DEF BmsInv, Page, Bms!ShownIsMeasured
<1>2. averages' = averages => Bms!RowsAreFinal
    BY DEF Bms!RowsAreFinal
<1>3. UNCHANGED <<clock, ticked, open, pending, averages, added, lost>> => Ledger'
    BY DEF BmsInv, Ledger, Held
<1>4. ASSUME NEW ok \in BOOLEAN, Bms!Flush(ok)
      PROVE  Ledger' /\ Page' /\ Bms!RowsAreFinal /\ Bms!ShownIsMeasured
    <2>1. shown' = shown
        BY <1>4 DEF Bms!Flush
    <2>. QED
        BY <1>1, <1>4, <2>1, FlushKeeps DEF BmsInv
<1>5. CASE Bms!PollListFails \/ Bms!PollWaits
    BY <1>0, <1>1, <1>2, <1>3, <1>5 DEF Bms!PollListFails, Bms!PollWaits, Bms!acc
<1>6. ASSUME NEW listed \in SUBSET Ids, NEW outcome \in [listed -> Bms!Outcomes],
             Bms!PollSlots(listed, outcome)
      PROVE  Ledger' /\ Page' /\ Bms!RowsAreFinal /\ Bms!ShownIsMeasured
    BY <1>1, <1>2, <1>3, <1>6 DEF Bms!PollSlots, Bms!acc
<1>7. CASE Bms!Add
    <2>1. averages' = averages
        BY <1>7 DEF Bms!Add
    <2>. QED
        BY <1>0, <1>2, <1>7, <2>1, AddStep DEF BmsInv
<1>8. CASE Bms!Tick
    <2>1. shown' = shown /\ averages' = averages
        BY <1>8 DEF Bms!Tick
    <2>. QED
        BY <1>0, <1>1, <1>2, <1>8, <2>1, TickKeeps DEF BmsInv
<1>9. CASE Bms!Restart
    <2>1. shown' = shown /\ averages' = averages
        BY <1>9 DEF Bms!Restart
    <2>. QED
        BY <1>0, <1>1, <1>2, <1>9, <2>1, StopKeeps DEF BmsInv
<1>10. CASE UNCHANGED Bms!vars
    BY <1>0, <1>1, <1>2, <1>3, <1>10 DEF Bms!vars, Bms!acc
<1>. QED
    BY <1>0, <1>4, <1>5, <1>6, <1>7, <1>8, <1>9, <1>10 DEF Bms!Next, BmsInv

LEMMA BmsTyped == BmsInv => Bms!TypeOK
BY DEF BmsInv, Patience, Ledger, Page, Bms!TypeOK

-----------------------------------------------------------------------------
(* The composition: a behaviour is one of one poller, the others rest in   *)
(* their first states.                                                     *)

PollersInv == GridInv /\ MapInv /\ BmsInv /\ AlarmInv

allVars == <<poller, gridVars, mapVars, bmsVars, alarmVars>>

\* A step of the composition is a step of each poller, or none of it.
LEMMA PollersParts ==
    ASSUME [PollersNext]_allVars
    PROVE  [Next]_vars /\ [M!Next]_(M!vars) /\ [Bms!Next]_(Bms!vars) /\ [A!Next]_(A!vars)
<1>1. UNCHANGED gridVars => UNCHANGED vars
    BY DEF gridVars, vars, server, memory, redis, table
<1>2. UNCHANGED mapVars => UNCHANGED M!vars
    BY DEF mapVars, M!vars, M!mapVars, M!kesVars, M!errVars
<1>3. UNCHANGED bmsVars => UNCHANGED Bms!vars
    BY DEF bmsVars, Bms!vars, Bms!poller, Bms!acc
<1>4. UNCHANGED alarmVars => UNCHANGED A!vars
    BY DEF alarmVars, A!vars
<1>. QED
    BY <1>1, <1>2, <1>3, <1>4 DEF PollersNext, allVars

LEMMA PollersInitially == PollersInit => PollersInv
BY GridInitially, MapInitially, BmsInitially, AlarmsInitially DEF PollersInit, PollersInv

\* Every step keeps the invariants and does only what the pollers may do.
LEMMA PollersStep ==
    ASSUME PollersInv, [PollersNext]_allVars
    PROVE  /\ PollersInv'
           /\ \A d \in M!Devices : rows'[d] > rows[d] => silent[d] >= Delay
           /\ M!ListedControllersStay
           /\ Bms!RowsAreFinal /\ Bms!ShownIsMeasured
           /\ A!WarnsAreSpaced
<1>1. [Next]_vars /\ [M!Next]_(M!vars) /\ [Bms!Next]_(Bms!vars) /\ [A!Next]_(A!vars)
    BY PollersParts
<1>. QED
    BY <1>1, GridStep, MapKept, BmsStep, AlarmsStep DEF PollersInv

LEMMA PollersInductive == PollersSpec => []PollersInv
<1>1. PollersInv /\ [PollersNext]_allVars => PollersInv'
    BY PollersStep
<1>. QED
    BY PollersInitially, <1>1, PTL DEF PollersSpec, allVars

(* Whatever is read, refused, missed or restarted, the pollers keep their  *)
(* types.                                                                  *)
THEOREM TypesOKCorrect == PollersSpec => []TypesOK
<1>1. PollersInv => TypesOK
    BY GridTyped, MapTypes, BmsTyped, AlarmsTyped DEF PollersInv, TypesOK
<1>. QED
    BY PollersInductive, <1>1, PTL

(* An alarm that lasts has one row, and loss and return of the grid        *)
(* alternate in the history of errors, whatever is refused or missed.      *)
THEOREM AlarmsAlternateCorrect == PollersSpec => []AlarmsAlternate
<1>1. PollersInv => AlarmsAlternate
    BY GridOnce DEF PollersInv
<1>. QED
    BY PollersInductive, <1>1, PTL

(* A reading that is shown has its point or is tried again, unless its     *)
(* series could not be created, and a frozen reading is not written again  *)
(* while its inverter answers.                                             *)
THEOREM ReadingsAreKeptCorrect == PollersSpec => []ReadingsAreKept
<1>1. PollersInv => ReadingsAreKept
    BY GridShown DEF PollersInv
<1>. QED
    BY PollersInductive, <1>1, PTL

(* "No data" is written only after the whole delay without any data, be it *)
(* of the MAP or of a controller, whatever writes are refused.             *)
THEOREM SilenceIsRealCorrect == PollersSpec => SilenceIsReal
<1>1. PollersInv /\ [PollersNext]_allVars
         => [\A d \in M!Devices : rows'[d] > rows[d] => silent[d] >= Delay]_(M!vars)
    BY PollersStep
<1>. QED
    BY PollersInductive, <1>1, PTL DEF PollersSpec, allVars, SilenceIsReal, M!SilenceIsReal

(* A kept tag is shown with its newest acknowledged measurement, or with   *)
(* that of a save that was applied but not acknowledged; a controller that *)
(* has gone leaves the display in time, and one that is listed stays.      *)
THEOREM ShownIsTrueCorrect == PollersSpec => ShownIsTrue
<1>1. PollersInv => M!KeptTagsAreNewest /\ M!GoneControllersLeave
    BY DEF PollersInv, MapInv, Cells, Display, M!GoneControllersLeave
<1>2. PollersInv' => M!KeptTagsAreNewest' /\ M!GoneControllersLeave'
    BY <1>1, PTL
<1>3. PollersInv /\ [PollersNext]_allVars
         => [M!KeptTagsAreNewest' /\ M!GoneControllersLeave' /\ M!ListedControllersStay]_(M!vars)
    BY <1>2, PollersStep
<1>. QED
    BY PollersInductive, <1>3, PTL DEF PollersSpec, allVars, ShownIsTrue, M!ShownIsTrue

(* Every point of a battery that was read is in exactly one place: its open *)
(* bucket, a closed one, the row of its window, or with those that a failed *)
(* transaction or a stop took; a row is written once and after its window; *)
(* what is shown as fresh is averaged; back-offs end.                      *)
THEOREM PointsBecomeRowsCorrect == PollersSpec => PointsBecomeRows
<1>1. PollersInv => Bms!EveryPointOnce /\ Bms!BackoffEnds
    BY LedgerAddsUp, PatienceEnds DEF PollersInv, BmsInv
<1>2. PollersInv' => Bms!EveryPointOnce' /\ Bms!BackoffEnds'
    BY <1>1, PTL
<1>3. PollersInv /\ [PollersNext]_allVars
         => [Bms!EveryPointOnce' /\ Bms!BackoffEnds' /\ Bms!RowsAreFinal
             /\ Bms!ShownIsMeasured]_(Bms!vars)
    BY <1>2, PollersStep
<1>. QED
    BY PollersInductive, <1>3, PTL DEF PollersSpec, allVars, PointsBecomeRows, Bms!PointsBecomeRows

(* An alarm of a battery or the MAP that lasts has one row, is not silenced *)
(* by a row that was refused, and the rows of a flapping warning are a     *)
(* window apart, through restarts, too.                                    *)
THEOREM AlarmsHaveRowsCorrect == PollersSpec => AlarmsHaveRows
<1>1. PollersInv => A!OncePerEpisode /\ A!RememberedHasRow
    BY AlarmsOnce DEF PollersInv, AlarmInv
<1>2. PollersInv' => A!OncePerEpisode' /\ A!RememberedHasRow'
    BY <1>1, PTL
<1>3. PollersInv /\ [PollersNext]_allVars
         => [A!OncePerEpisode' /\ A!RememberedHasRow' /\ A!WarnsAreSpaced]_(A!vars)
    BY <1>2, PollersStep
<1>. QED
    BY PollersInductive, <1>3, PTL DEF PollersSpec, allVars, AlarmsHaveRows, A!AlarmsHaveRows
=============================================================================
