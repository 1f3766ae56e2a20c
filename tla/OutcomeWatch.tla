----------------------------- MODULE OutcomeWatch -----------------------------
(***************************************************************************)
(* The SDK's waiting helpers, polling one receipt address while the chains *)
(* go on:                                                                  *)
(*   "outcome"  awaitReceiptOutcome: remembers a processed receipt, and    *)
(*              reads a later null as its closure                          *)
(*   "closed"   awaitClosed and pollClosedOnBase: remember that there was  *)
(*              an account, and read a later null as its closure           *)
(* Each poll is one read of the base chain; between two polls a receipt    *)
(* may be settled and its address staged again.                            *)
(***************************************************************************)
EXTENDS ReceiptChain

CONSTANTS Watchers   \* calls of a waiting helper

VARIABLE watch   \* watch[w]: the local variables of call w, and its result

watchVars == <<chainVars, watch>>

Helpers == {"outcome", "closed"}
Reports == {"none", "settled", "reverted", "closed", "timeout"}

(***************************************************************************)
(* saw: sawProcessed, or seen; out: lastOut                                *)
(* target, at (history): the generation when the call began and ended      *)
(* failed (history): the null that ended the call was a read that failed   *)
(***************************************************************************)
Call == [helper : Helpers \cup {"none"}, r : Receipts, saw : BOOLEAN, out : Decisions,
         report : Reports, target : 0..MaxGen, at : 0..MaxGen,
         failed : BOOLEAN]

Init ==
    /\ ChainInit
    /\ watch \in [Watchers -> {[helper |-> "none", r |-> r, saw |-> FALSE,
                                out |-> "pending", report |-> "none",
                                target |-> 0, at |-> 0, failed |-> FALSE] : r \in Receipts}]

Polling(w) == watch[w].helper # "none" /\ watch[w].report = "none"

Becomes(w, C) == watch' = [watch EXCEPT ![w] = C] /\ UNCHANGED chainVars

Return(w, report, failed) ==
    Becomes(w, [watch[w] EXCEPT !.report = report, !.at = gen[watch[w].r], !.failed = failed])

\* The helper is called for a receipt that was staged, however long ago.
Begin(w, h, r) ==
    /\ ~Polling(w)
    /\ gen[r] > 0
    /\ Becomes(w, [helper |-> h, r |-> r, saw |-> FALSE, out |-> "pending",
                   report |-> "none", target |-> gen[r], at |-> 0, failed |-> FALSE])

Found(r) == base[r].state # "absent"

\* (mutants) the output field is not kept; the call ends at processed = 1
PollFinds_DropsOut(w) ==
    /\ Polling(w)
    /\ Found(watch[w].r)
    /\ Becomes(w, [watch[w] EXCEPT
          !.saw = @ \/ watch[w].helper = "closed" \/ base[watch[w].r].decision # "pending"])

PollFinds_EndsProcessed(w) ==
    LET r == watch[w].r IN
    /\ Polling(w)
    /\ Found(r)
    /\ IF base[r].decision = "pending"
         THEN Becomes(w, [watch[w] EXCEPT !.saw = @ \/ watch[w].helper = "closed"])
         ELSE Return(w, IF base[r].decision = "success" THEN "settled" ELSE "reverted", FALSE)

\* A poll that finds the account: `processed` and the output field, or `seen`.
PollFinds(w) ==
    LET r == watch[w].r IN
    /\ Polling(w)
    /\ Found(r)
    /\ Becomes(w, IF watch[w].helper = "closed"
                    THEN [watch[w] EXCEPT !.saw = TRUE]
                  ELSE IF base[r].decision # "pending"
                    THEN [watch[w] EXCEPT !.saw = TRUE, !.out = base[r].decision]
                  ELSE watch[w])

\* A poll that gets null ends a call that saw something; awaitReceiptOutcome
\* gives up at once if it never saw the receipt processed.
Null(w, failed) ==
    /\ Polling(w)
    /\ \/ /\ watch[w].saw
          /\ Return(w, IF watch[w].helper = "closed" THEN "closed"
                       ELSE IF watch[w].out = "success" THEN "settled" ELSE "reverted", failed)
       \/ /\ ~watch[w].saw
          /\ watch[w].helper = "outcome"
          /\ Return(w, "timeout", failed)

\* There is no account, or the read failed: .catch(() => null).
PollMisses(w) == ~Found(watch[w].r) /\ Null(w, FALSE)
PollFails(w) == Null(w, TRUE)

Expire(w) == Polling(w) /\ Return(w, "timeout", FALSE)

Chain == ChainNext /\ UNCHANGED watch

Next ==
    \/ \E w \in Watchers :
          \/ \E h \in Helpers, r \in Receipts : Begin(w, h, r)
          \/ PollFinds(w)
          \/ PollMisses(w)
          \/ PollFails(w)
          \/ Expire(w)
    \/ Chain

Spec == Init /\ [][Next]_watchVars
-----------------------------------------------------------------------------
TypeOK == ChainTypeOK /\ watch \in [Watchers -> Call]

Terminal(w) == watch[w].report \in {"settled", "reverted", "closed"}

\* "settled" and "reverted" name the verdict `_er` reached, if the address was
\* not staged again during the call - even when reads fail.
ReportIsVerdict ==
    \A w \in Watchers :
        (/\ watch[w].report \in {"settled", "reverted"}
         /\ watch[w].at = watch[w].target)
        => (watch[w].report = "settled") =
              (verdicts[watch[w].r][watch[w].target] = "success")

\* Whatever was staged again meanwhile, "settled" is only said when some staging
\* since the call began paid out, and "reverted" when one was sent back.
ReportHappened ==
    \A w \in Watchers :
        watch[w].report \in {"settled", "reverted"} =>
            \E g \in watch[w].target .. watch[w].at :
                verdicts[watch[w].r][g] =
                    (IF watch[w].report = "settled" THEN "success" ELSE "failure")

\* "account closed -> settle finished (terminal)": a terminal report means that
\* the stake the caller asked about has left, and stays so, unless the read that
\* ended the call failed.
TerminalMeansClosed ==
    \A w \in Watchers :
        Terminal(w) /\ ~watch[w].failed => Closed(watch[w].r, watch[w].target)

\* "closed after processing -> terminal", of awaitReceiptOutcome alone.
ProcessedThenGoneIsTerminal ==
    \A w \in Watchers :
        watch[w].report \in {"settled", "reverted"} =>
            Closed(watch[w].r, watch[w].target)
=============================================================================
