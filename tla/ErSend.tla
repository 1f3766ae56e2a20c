-------------------------------- MODULE ErSend --------------------------------
(***************************************************************************)
(* One transaction to the ER: sendErTransactionLegacy sends it and         *)
(* pollErTransaction looks for it every Interval until a deadline.  The    *)
(* loop tests the deadline, reads, sleeps: it does not look once more when *)
(* the deadline has passed.                                                *)
(***************************************************************************)
EXTENDS Naturals

CONSTANTS Timeout,   \* pollTimeoutMs
          Interval,  \* pollIntervalMs
          Latency,   \* longest time a read takes
          MaxTime    \* bound on the clock

ASSUME TimesAssumption == /\ Timeout \in Nat /\ Interval \in Nat
                          /\ Latency \in Nat /\ MaxTime \in Nat

VARIABLES now,  \* the clock
          tx,   \* the transaction on the ER
          poll  \* the caller

erVars == <<now, tx, poll>>

(* landed: "no", or how it ended there, at time at.                        *)
Tx == [sent : BOOLEAN, landed : {"no", "ok", "failed"}, at : Nat]

(* since: when the last read began; wake: when the sleep ends; failed      *)
(* (history): the last read failed.                                        *)
Answers == {"ok", "failed", "notLanded", "error"}
Pcs == {"idle", "loop", "read", "sleep"} \cup Answers
Poll == [pc : Pcs, deadline : Nat, since : Nat, wake : Nat, failed : BOOLEAN]

Init ==
    /\ now = 0
    /\ tx = [sent |-> FALSE, landed |-> "no", at |-> 0]
    /\ poll = [pc |-> "idle", deadline |-> 0, since |-> 0, wake |-> 0, failed |-> FALSE]
-----------------------------------------------------------------------------
\* The transaction lands and ends with res.
Land(res) ==
    /\ tx.sent /\ tx.landed = "no"
    /\ tx' = [tx EXCEPT !.landed = res, !.at = now]
    /\ UNCHANGED <<now, poll>>

\* Only sleeps and reads take time.
Tick ==
    /\ now < MaxTime
    /\ poll.pc # "loop"
    /\ poll.pc = "read" => now < poll.since + Latency
    /\ poll.pc = "sleep" => now < poll.wake
    /\ now' = now + 1
    /\ UNCHANGED <<tx, poll>>
-----------------------------------------------------------------------------
\* sendErTransactionLegacy up to the signature, and the deadline of the poll.
Send_NotBroadcast ==
    /\ poll.pc = "idle"
    /\ poll' = [poll EXCEPT !.pc = "loop", !.deadline = now + Timeout, !.since = now]
    /\ UNCHANGED <<now, tx>>

Send ==
    /\ poll.pc = "idle"
    /\ tx' = [tx EXCEPT !.sent = TRUE]
    /\ poll' = [poll EXCEPT !.pc = "loop", !.deadline = now + Timeout, !.since = now]
    /\ UNCHANGED now

\* The send itself throws, before or after it reached the ER.
SendThrows ==
    /\ poll.pc = "idle"
    /\ tx' \in {tx, [tx EXCEPT !.sent = TRUE]}
    /\ poll' = [poll EXCEPT !.pc = "error"]
    /\ UNCHANGED now

\* while (Date.now() < deadline)
Again_Forever ==
    /\ poll.pc = "loop"
    /\ poll' = [poll EXCEPT !.pc = "read", !.since = now]
    /\ UNCHANGED <<now, tx>>

Again ==
    /\ poll.pc = "loop"
    /\ now < poll.deadline
    /\ poll' = [poll EXCEPT !.pc = "read", !.since = now]
    /\ UNCHANGED <<now, tx>>

\* pollErTransaction returns null and the caller throws "did not land".
GiveUp_AnyTime ==
    /\ poll.pc = "loop"
    /\ poll' = [poll EXCEPT !.pc = "notLanded"]
    /\ UNCHANGED <<now, tx>>

GiveUp ==
    /\ poll.pc = "loop"
    /\ now >= poll.deadline
    /\ poll' = [poll EXCEPT !.pc = "notLanded"]
    /\ UNCHANGED <<now, tx>>

\* (mutant) the error of the transaction is not looked at
ReadHit_IgnoresErr ==
    /\ poll.pc = "read"
    /\ tx.landed # "no"
    /\ poll' = [poll EXCEPT !.pc = "ok"]
    /\ UNCHANGED <<now, tx>>

\* getTransaction finds it: its status, or "ER transaction failed".
ReadHit ==
    /\ poll.pc = "read"
    /\ tx.landed # "no"
    /\ poll' = [poll EXCEPT !.pc = tx.landed]
    /\ UNCHANGED <<now, tx>>

Sleep(failed) == poll' = [poll EXCEPT !.pc = "sleep", !.wake = now + Interval, !.failed = failed]

\* It does not: the read was served before the transaction landed.
ReadMiss ==
    /\ poll.pc = "read"
    /\ tx.landed = "no" \/ tx.at >= poll.since
    /\ Sleep(FALSE)
    /\ UNCHANGED <<now, tx>>

\* It fails: .catch(() => null).
ReadFails ==
    /\ poll.pc = "read"
    /\ Sleep(TRUE)
    /\ UNCHANGED <<now, tx>>

Wake ==
    /\ poll.pc = "sleep"
    /\ now >= poll.wake
    /\ poll' = [poll EXCEPT !.pc = "loop"]
    /\ UNCHANGED <<now, tx>>

Next ==
    \/ \E res \in {"ok", "failed"} : Land(res)
    \/ Tick
    \/ Send
    \/ SendThrows
    \/ Again
    \/ GiveUp
    \/ ReadHit
    \/ ReadMiss
    \/ ReadFails
    \/ Wake

Spec == Init /\ [][Next]_erVars
-----------------------------------------------------------------------------
TypeOK ==
    /\ now \in Nat /\ tx \in Tx /\ poll \in Poll
    /\ poll.pc \in {"loop", "read", "sleep"} => tx.sent

\* A transaction that "did not land" landed, if at all, no earlier than one
\* interval and one read before the deadline, unless the last read failed.
MissedOnlyAtTheEnd ==
    poll.pc = "notLanded" /\ tx.landed # "no" /\ ~poll.failed
        => tx.at + Interval + Latency >= poll.deadline

\* The call ends one interval and one read after its deadline at the latest,
\* whatever reads fail.
EndsInTime ==
    poll.pc \in {"loop", "read", "sleep"} => now <= poll.deadline + Interval + Latency
=============================================================================
