----------------------------- MODULE MeterLink ------------------------------
(***************************************************************************)
(* The link to a Modbus meter and the poll of the DTS017M over it: a check *)
(* of the meter's clock now and then, two blocks of registers, one retry   *)
(* of a block that timed out.                                              *)
(*                                                                         *)
(* A frame of Modbus RTU names no request.  What tells an answer from a    *)
(* late one is the drained socket, the size of the block, its CRC, and the *)
(* closing of the connection on every doubt; over TCP, the transaction id. *)
(* The meter answers in the order it was asked, a block in one piece or in *)
(* two, an exception in one; what was asked on a closed connection is never *)
(* answered on the next one.  The stop of the service is not modelled.     *)
(***************************************************************************)
EXTENDS Naturals, Sequences, SequencesExt

CONSTANTS
    Size,  \* registers of a block, and the length of the answer to a writing
    Depth  \* bound: requests that wait at the gateway

Blocks == {"time", "tele", "energy"}
Stages == Blocks \cup {"set"}     \* "set" is the writing of the clock
Modes  == {"rtu", "keep", "tcp"}  \* "keep" is RTU with KeepConnOnTimeout

MeterLinkAssumption ==
    /\ Size \in [Stages -> Nat \ {0}] /\ Depth \in Nat \ {0}
    /\ \A b, c \in Blocks : Size[b] = Size[c] => b = c

VARIABLES
    mode,    \* the configuration, which never changes
    conn,    \* "none", "up", or "dead": closed by the peer, not noticed yet
    pending, \* gateway: requests not answered yet, the first perhaps by half
    inbox,   \* socket: pieces of frames that were not read
    pc,      \* the client: "idle" "ask" "wait" "skipped" "body" "stale"
    stage,   \* what the poll asks for
    try,     \* the first or the second time
    clean,   \* no older request was waiting when this one was written
    answer,  \* what was taken for the last answer: "own", "late" (older, while an
             \* older request was waiting), "stale" (older) or "foreign"
    last,    \* how the last poll ended
    calm     \* the meter and the network are in order, for good

vars == <<mode, conn, pending, inbox, pc, stage, try, clean, answer, last, calm>>

Frame == [blk : Stages, exc : BOOLEAN, own : BOOLEAN, part : {"whole", "head", "rest"}]

-----------------------------------------------------------------------------
\* The gateway and the meter: an answer arrives, whole or its first bytes.
Deliver(part) ==
    /\ pending # <<>> /\ ~Head(pending).half
    /\ \E exc \in IF calm \/ part = "head" THEN {FALSE} ELSE BOOLEAN :
          inbox' = Append(inbox, [blk |-> Head(pending).blk, exc |-> exc,
                                  own |-> Head(pending).own, part |-> part])
    /\ pending' = IF part = "whole" THEN Tail(pending)
                                    ELSE [pending EXCEPT ![1].half = TRUE]
    /\ UNCHANGED <<mode, conn, pc, stage, try, clean, answer, last, calm>>

DeliverRest ==
    /\ pending # <<>> /\ Head(pending).half
    /\ inbox' = Append(inbox, [blk |-> Head(pending).blk, exc |-> FALSE,
                               own |-> FALSE, part |-> "rest"])
    /\ pending' = Tail(pending)
    /\ UNCHANGED <<mode, conn, pc, stage, try, clean, answer, last, calm>>

\* A request or the rest of an answer is lost, or the peer closes.
Lose ==
    /\ ~calm /\ pending # <<>>
    /\ \/ pending' = Tail(pending) /\ UNCHANGED <<conn, inbox>>
       \/ conn' = "dead" /\ pending' = <<>> /\ inbox' = <<>>
    /\ UNCHANGED <<mode, pc, stage, try, clean, answer, last, calm>>

CalmDown ==
    /\ ~calm /\ calm' = TRUE
    /\ UNCHANGED <<mode, conn, pending, inbox, pc, stage, try, clean, answer, last>>

-----------------------------------------------------------------------------
\* runDts017Poll: a tick, with a check of the clock when one is due.
Tick(check) ==
    /\ pc = "idle"
    /\ pc' = "ask" /\ try' = 1 /\ stage' = IF check THEN "time" ELSE "tele"
    /\ UNCHANGED <<mode, conn, pending, inbox, clean, answer, last, calm>>

Foreign(q) == [i \in DOMAIN q |-> [q[i] EXCEPT !.own = FALSE]]

\* The stages that may follow a success, checkAndSyncDts017Time and pollDts017.
After(s) == CASE s = "time" -> {"set", "tele"} [] s = "set" -> {"tele"}
              [] s = "tele" -> {"energy"}      [] s = "energy" -> {"end"}

\* Faulty variant: a writing that timed out is repeated as well.
RepeatsAll(result) == result = "timeout" /\ try = 1

\* readDts017Block: one retry of a block, after a timeout only.
Repeats(result) == result = "timeout" /\ try = 1 /\ stage # "set"

\* The end of a poll: what it has read is saved, or it is given up.
Ended(ok) ==
    /\ pc' = "idle" /\ last' = IF ok THEN "ok" ELSE "failed"
    /\ try' = 1 /\ stage' = "tele"

\* The poll goes on after a result: a retry of a block that timed out, the
\* next stage, the end.  A clock that could not be read or set ends nothing.
Proceed(result) ==
    IF Repeats(result)
    THEN pc' = "ask" /\ try' = 2 /\ UNCHANGED <<stage, last>>
    ELSE \E next \in IF result = "ok" THEN After(stage)
                     ELSE IF stage \in {"time", "set"} THEN {"tele"} ELSE {"failed"} :
            IF next \in Stages
            THEN pc' = "ask" /\ try' = 1 /\ stage' = next /\ UNCHANGED last
            ELSE Ended(next = "end")

\* Faulty variant: the connection is closed and not forgotten.
CloseOnly == conn' = (IF conn = "up" THEN "dead" ELSE conn) /\ pending' = <<>> /\ inbox' = <<>>

\* closeConn.
Close == conn' = "none" /\ pending' = <<>> /\ inbox' = <<>>

\* Faulty variant: what is left in the socket stays there.
Undrained == inbox

\* drainLocked: for RTU, what had arrived by now is thrown away.
Drained == IF mode = "tcp" THEN inbox ELSE <<>>

\* dial, drainLocked and writeReqLocked: a dead connection is noticed by the
\* write and replaced once, or by the read.  The gateway may take no more.
Ask ==
    /\ pc = "ask"
    /\ \E fresh \in IF conn = "up" THEN {FALSE} ELSE IF conn = "none" THEN {TRUE} ELSE BOOLEAN :
          LET old == IF fresh \/ conn = "dead" THEN <<>> ELSE Foreign(pending)
          IN  /\ conn' = IF fresh THEN "up" ELSE conn
              /\ pending' = IF Len(old) < Depth /\ conn' = "up"
                            THEN Append(old, [blk |-> stage, own |-> TRUE, half |-> FALSE])
                            ELSE old
              /\ inbox' = IF fresh THEN <<>> ELSE Foreign(Drained)
              /\ clean' = (old = <<>>)
    /\ pc' = "wait"
    /\ UNCHANGED <<mode, stage, try, answer, last, calm>>

\* Nobody accepts the connection, at once or after the time to dial.
DialFails ==
    /\ pc = "ask" /\ conn # "up" /\ ~calm
    /\ Close
    /\ \E result \in {"timeout", "error"} : Proceed(result)
    /\ UNCHANGED <<mode, clean, answer, calm>>

-----------------------------------------------------------------------------
\* The function of a frame: the echo of a writing, or the data of a block.
Echo(f) == f.blk = "set"
Data(f) == f.blk # "set"

\* The header names this unit, the function and, over TCP, the transaction.
\* An exception is taken for this request whatever function it names.
Fits(f) ==
    /\ f.part # "rest"
    /\ f.exc \/ IF stage = "set" THEN Echo(f) ELSE Data(f)
    /\ mode = "tcp" => f.own

\* Faulty variant: a block of any size is taken.
AnySize(f) == TRUE

\* The byte count is that of the block that was asked for.
RightSize(f) == Size[f.blk] = Size[stage]

\* What a frame really is for the request of this stage.
Verdict(f) == IF f.exc \/ f.blk # stage THEN "foreign"
              ELSE IF f.own THEN "own" ELSE IF clean THEN "stale" ELSE "late"

\* The frame is whole and its CRC right.
Take(f) == answer' = Verdict(f) /\ Proceed("ok") /\ UNCHANGED <<conn, pending>>

\* The stale frame of another block is thrown away, the time begins anew.
Skip == pc' = "skipped" /\ UNCHANGED <<conn, pending, stage, try, answer, last>>

Refuse == Close /\ Proceed("error") /\ UNCHANGED answer

\* readRTULocked, readTCPLocked and the two writes: a header is read.  When
\* the frame goes on, its rest is waited for.
ReadHeader ==
    LET f == Head(inbox)
        skips == mode # "tcp" /\ stage # "set" /\ pc = "wait"
    IN  /\ pc \in {"wait", "skipped"} /\ inbox # <<>>
        /\ \/ /\ Fits(f) /\ f.exc
              /\ IF mode = "keep" /\ stage # "set"
                 THEN Close
                 ELSE inbox' = Tail(inbox) /\ UNCHANGED <<conn, pending>>
              /\ Proceed("error") /\ UNCHANGED answer
           \/ /\ Fits(f) /\ ~f.exc /\ f.part = "whole" /\ RightSize(f)
              /\ inbox' = Tail(inbox) /\ Take(f)
           \/ /\ Fits(f) /\ ~f.exc /\ f.part = "whole" /\ ~RightSize(f) /\ skips
              /\ inbox' = Tail(inbox) /\ Skip
           \/ /\ Fits(f) /\ f.part = "head" /\ (RightSize(f) \/ skips)
              /\ pc' = IF RightSize(f) THEN "body" ELSE "stale"
              /\ UNCHANGED <<conn, pending, inbox, stage, try, answer, last>>
           \/ ~Fits(f) /\ Refuse
           \/ Fits(f) /\ ~f.exc /\ ~RightSize(f) /\ ~skips /\ Refuse
        /\ UNCHANGED <<mode, clean, calm>>

\* The rest of a frame whose header was read.
ReadRest ==
    /\ pc \in {"body", "stale"} /\ Len(inbox) > 1
    /\ inbox' = Tail(Tail(inbox))
    /\ IF pc = "body" THEN Take(Head(inbox)) ELSE Skip
    /\ UNCHANGED <<mode, clean, calm>>

\* A connection is kept after a timeout when not one byte was read.
Keeps == mode = "keep" /\ stage # "set" /\ pc \in {"wait", "skipped"}

\* The time is over: the answer is late or lost.
Timeout ==
    /\ pc \in {"wait", "skipped", "body", "stale"} /\ conn = "up"
    /\ Len(inbox) = (IF pc \in {"body", "stale"} THEN 1 ELSE 0) /\ (calm => pending = <<>>)
    /\ IF Keeps THEN UNCHANGED <<conn, pending, inbox>> ELSE Close
    /\ Proceed("timeout")
    /\ UNCHANGED <<mode, clean, answer, calm>>

\* The read finds the connection closed by the peer.
ReadFails ==
    /\ pc \in {"wait", "skipped", "body", "stale"} /\ conn = "dead"
    /\ Refuse /\ UNCHANGED <<mode, clean, calm>>

-----------------------------------------------------------------------------
Init ==
    /\ mode \in Modes /\ conn = "none" /\ pending = <<>> /\ inbox = <<>>
    /\ pc = "idle" /\ stage = "tele" /\ try = 1 /\ clean = TRUE
    /\ answer = "own" /\ last = "none" /\ calm = FALSE

Poller == (\E check \in BOOLEAN : Tick(check)) \/ Ask \/ ReadHeader \/ ReadRest \/ ReadFails
Meter  == (\E part \in {"whole", "head"} : Deliver(part)) \/ DeliverRest

Next == Poller \/ Timeout \/ DialFails \/ Meter \/ Lose \/ CalmDown

Spec == Init /\ [][Next]_vars /\ WF_vars(Poller) /\ WF_vars(Timeout) /\ WF_vars(Meter)

-----------------------------------------------------------------------------
TypeOK ==
    /\ mode \in Modes /\ conn \in {"none", "up", "dead"}
    /\ pending \in BoundedSeq([blk : Stages, own : BOOLEAN, half : BOOLEAN], Depth)
    /\ \A i \in DOMAIN inbox : inbox[i] \in Frame
    /\ pc \in {"idle", "ask", "wait", "skipped", "body", "stale"}
    /\ stage \in Stages /\ try \in {1, 2} /\ (try = 2 => stage \in Blocks)
    /\ clean \in BOOLEAN /\ calm \in BOOLEAN
    /\ answer \in {"own", "late", "stale", "foreign"} /\ last \in {"none", "ok", "failed"}

(* What is decoded as a block is the answer to a request for that block and *)
(* not an exception, however late the answers of other blocks come.         *)
OwnBlock == answer # "foreign"

(* An older answer is never taken for the one to this request over TCP or   *)
(* where every timeout closes the connection; where it is kept, only while  *)
(* an older request was not answered yet when this one was written.         *)
OwnAnswer == answer \in {"own", "foreign"} \/ (mode = "keep" /\ answer = "late")

(* A block that is decoded is what was asked for.                           *)
AnswersAreOwn == OwnBlock /\ OwnAnswer

(* Once the meter answers in time again every poll succeeds, whatever late  *)
(* answers, halves of frames and closed connections the trouble has left.   *)
PollsRecover == calm ~> [](last = "ok")

=============================================================================
