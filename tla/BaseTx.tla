-------------------------------- MODULE BaseTx --------------------------------
(***************************************************************************)
(* Calls that change the base chain: the setup calls, which look whether   *)
(* their account exists before they create it, and deposits, which need    *)
(* the accounts.  Each sends one transaction and waits for it with         *)
(* sendAndConfirmTransaction.                                              *)
(*                                                                         *)
(* The three reads of a call may see three different heights: the account  *)
(* check reads at "confirmed", the transaction's blockhash is fetched at   *)
(* "confirmed", and the wait fetches a second blockhash, and watches, at   *)
(* the client's txConfirmationCommitment.                                  *)
(***************************************************************************)
EXTENDS Naturals

CONSTANTS Calls,         \* calls of the client, by any process of the owner
          Accounts,      \* basket, deposit ledger, trade vault, session token
          Window,        \* blocks for which a blockhash is valid
          MaxHeight,     \* bound on the number of blocks
          ConfirmLevel,  \* txConfirmationCommitment
          Forks          \* may blocks that are not confirmed be dropped?

Levels == {"processed", "confirmed", "finalized"}
CheckLevel == "confirmed"   \* SETUP_ACCOUNT_CHECK_COMMITMENT
SendLevel == "confirmed"    \* preflightCommitment ?? "confirmed"

ASSUME WindowAssumption == Window \in Nat
ASSUME MaxHeightAssumption == MaxHeight \in Nat
ASSUME LevelAssumption == ConfirmLevel \in Levels /\ Forks \in BOOLEAN

VARIABLES height,  \* height[l]: the last block seen at commitment l
          tx,      \* tx[c]: the transaction of call c
          call     \* call[c]: what call c does and knows

txVars == <<height, tx, call>>

(* until: the last block the transaction may land in; at: the block it is  *)
(* in, 0 if none; ok: whether it succeeded there.                          *)
Tx == [sent : BOOLEAN, until : Nat, at : Nat, ok : BOOLEAN]

Kinds == {"none", "create", "deposit"}
Answers == {"noop", "ok", "failed", "expired", "unknown"}
Pcs == {"idle", "check", "send", "blockhash", "confirm"} \cup Answers

(* lv: lastValidBlockHeight of the wait; told (history): the accounts that *)
(* earlier calls had reported as existing when this call began.            *)
Call == [pc : Pcs, kind : Kinds, acct : Accounts, lv : Nat, told : SUBSET Accounts]

Init ==
    /\ height = [l \in Levels |-> CASE l = "processed" -> 2
                                    [] l = "confirmed" -> 1
                                    [] l = "finalized" -> 0]
    /\ tx = [c \in Calls |-> [sent |-> FALSE, until |-> 0, at |-> 0, ok |-> FALSE]]
    /\ call \in [Calls -> {[pc |-> "idle", kind |-> "none", acct |-> a, lv |-> 0,
                            told |-> {}] : a \in Accounts}]
-----------------------------------------------------------------------------
(* The base chain. height["processed"] is the block under construction.    *)

InBlock(c, h) == tx[c].at # 0 /\ tx[c].at <= h

Creates(c, a) == call[c].kind = "create" /\ call[c].acct = a

\* Account a as a read at commitment l shows it.
ExistsAt(a, l) == \E c \in Calls : Creates(c, a) /\ InBlock(c, height[l]) /\ tx[c].ok

\* The program's handlers: an account is created once; a deposit needs the
\* ledger of the owner and the vault of the mint.
Works(c) ==
    IF call[c].kind = "create" THEN ~ExistsAt(call[c].acct, "processed")
                               ELSE \A a \in Accounts : ExistsAt(a, "processed")

Land(c) ==
    /\ tx[c].sent /\ tx[c].at = 0
    /\ height["processed"] <= tx[c].until
    /\ tx' = [tx EXCEPT ![c].at = height["processed"], ![c].ok = Works(c)]
    /\ UNCHANGED <<height, call>>

\* The wait of call c goes on.
Waits(c) == call[c].pc = "confirm" /\ height[ConfirmLevel] <= call[c].lv

\* Blocks up to the bound, and as many as the waits need to end.
NewBlock ==
    /\ \/ height["processed"] < MaxHeight
       \/ /\ \E c \in Calls : Waits(c)
          /\ height["processed"] <= height[ConfirmLevel] + 1
    /\ height' = [height EXCEPT !["processed"] = @ + 1]
    /\ UNCHANGED <<tx, call>>

Vote ==
    /\ height["confirmed"] + 1 < height["processed"]
    /\ height' = [height EXCEPT !["confirmed"] = @ + 1]
    /\ UNCHANGED <<tx, call>>

Root ==
    /\ height["finalized"] < height["confirmed"]
    /\ height' = [height EXCEPT !["finalized"] = @ + 1]
    /\ UNCHANGED <<tx, call>>

\* The cluster goes on from before block h: what landed there is undone,
\* and may land again.
Fork(h) ==
    /\ Forks
    /\ height["confirmed"] < h /\ h <= height["processed"]
    /\ height' = [height EXCEPT !["processed"] = h]
    /\ tx' = [c \in Calls |-> IF tx[c].at >= h
                              THEN [tx[c] EXCEPT !.at = 0, !.ok = FALSE] ELSE tx[c]]
    /\ UNCHANGED call
-----------------------------------------------------------------------------
(* One call of the client. *)

Becomes(c, C) == call' = [call EXCEPT ![c] = C]

Goto(c, pc) == Becomes(c, [call[c] EXCEPT !.pc = pc])

Answer(c, pc) == Becomes(c, [call[c] EXCEPT !.pc = pc, !.lv = 0])

\* Accounts that a call said it had created or found.
Reported == {a \in Accounts : \E c \in Calls : Creates(c, a) /\ call[c].pc \in {"ok", "noop"}}

\* initializeBasket, initializeUserDepositLedger, initTradeVault, createSession
Create(c, a) ==
    /\ call[c].pc = "idle"
    /\ Becomes(c, [call[c] EXCEPT !.pc = "check", !.kind = "create", !.acct = a,
                                  !.told = Reported])
    /\ UNCHANGED <<height, tx>>

\* depositDirect: nothing is looked up.
Deposit(c) ==
    /\ call[c].pc = "idle"
    /\ Becomes(c, [call[c] EXCEPT !.pc = "send", !.kind = "deposit", !.told = Reported])
    /\ UNCHANGED <<height, tx>>

\* getSetupAccountInfo answers: no instructions are built for an account
\* that exists (createSession throws).
Check_Skipped(c) ==
    /\ call[c].pc = "check"
    /\ Goto(c, "send")
    /\ UNCHANGED <<height, tx>>

Check(c) ==
    /\ call[c].pc = "check"
    /\ Goto(c, IF ExistsAt(call[c].acct, CheckLevel) THEN "noop" ELSE "send")
    /\ UNCHANGED <<height, tx>>

\* All attempts of getSetupAccountInfo failed: it throws, and does not
\* report the account as missing.
CheckFails(c) ==
    /\ call[c].pc = "check"
    /\ Goto(c, "unknown")
    /\ UNCHANGED <<height, tx>>

\* sendBaseTransaction, up to the signature.  A blockhash that is old when
\* the transaction leaves only shortens the time in which it may land.
Sent_NotBroadcast(c) == tx' = [tx EXCEPT ![c].until = height[SendLevel] + Window]

Sent(c) == tx' = [tx EXCEPT ![c].sent = TRUE, ![c].until = height[SendLevel] + Window]

Send(c) ==
    /\ call[c].pc = "send"
    /\ Sent(c)
    /\ Goto(c, "blockhash")
    /\ UNCHANGED height

\* It throws: refused by the preflight, or lost on the way back.
SendThrows(c) ==
    /\ call[c].pc = "send"
    /\ Sent(c) \/ UNCHANGED tx
    /\ Goto(c, "unknown")
    /\ UNCHANGED height

\* confirmBaseTransaction is given no blockhash and fetches one of its own.
FetchBlockhash_OldestValid(c) ==
    /\ call[c].pc = "blockhash"
    /\ Becomes(c, [call[c] EXCEPT !.pc = "confirm", !.lv = height[ConfirmLevel]])
    /\ UNCHANGED <<height, tx>>

FetchBlockhash(c) ==
    /\ call[c].pc = "blockhash"
    /\ Becomes(c, [call[c] EXCEPT !.pc = "confirm", !.lv = height[ConfirmLevel] + Window])
    /\ UNCHANGED <<height, tx>>

FetchThrows(c) ==
    /\ call[c].pc = "blockhash"
    /\ Goto(c, "unknown")
    /\ UNCHANGED <<height, tx>>

\* confirmTransaction sees the transaction at ConfirmLevel.
Confirm_Tip(c) ==
    /\ call[c].pc = "confirm"
    /\ InBlock(c, height["processed"])
    /\ Answer(c, IF tx[c].ok THEN "ok" ELSE "failed")
    /\ UNCHANGED <<height, tx>>

Confirm_OnlySuccess(c) ==
    /\ call[c].pc = "confirm"
    /\ InBlock(c, height[ConfirmLevel])
    /\ tx[c].ok
    /\ Answer(c, "ok")
    /\ UNCHANGED <<height, tx>>

Confirm(c) ==
    /\ call[c].pc = "confirm"
    /\ InBlock(c, height[ConfirmLevel])
    /\ Answer(c, IF tx[c].ok THEN "ok" ELSE "failed")
    /\ UNCHANGED <<height, tx>>

\* It does not, and the blockhash it was given has expired at ConfirmLevel.
Expire(c) ==
    /\ call[c].pc = "confirm"
    /\ ~InBlock(c, height[ConfirmLevel])
    /\ height[ConfirmLevel] > call[c].lv
    /\ Answer(c, "expired")
    /\ UNCHANGED <<height, tx>>
-----------------------------------------------------------------------------
ClientStep(c) ==
    \/ \E a \in Accounts : Create(c, a)
    \/ Deposit(c)
    \/ Check(c)
    \/ CheckFails(c)
    \/ Send(c)
    \/ SendThrows(c)
    \/ FetchBlockhash(c)
    \/ FetchThrows(c)
    \/ Confirm(c)
    \/ Expire(c)

ChainStep ==
    \/ \E c \in Calls : Land(c)
    \/ NewBlock
    \/ Vote
    \/ Root
    \/ \E h \in 1..height["processed"] : Fork(h)

Next == ChainStep \/ \E c \in Calls : ClientStep(c)

Spec == Init /\ [][Next]_txVars

(* The cluster goes on making blocks and confirming them, and a wait that  *)
(* may end does.                                                           *)
FairSpec ==
    /\ Spec
    /\ WF_txVars(NewBlock) /\ SF_txVars(Vote) /\ WF_txVars(Root)
    /\ \A c \in Calls : WF_txVars(Confirm(c) \/ Expire(c))
-----------------------------------------------------------------------------
TypeOK ==
    /\ height \in [Levels -> Nat]
    /\ tx \in [Calls -> Tx]
    /\ call \in [Calls -> Call]
    /\ \A c \in Calls : call[c].pc \in {"blockhash", "confirm"} => tx[c].sent

\* A call that reports its transaction as expired is right: it is in no
\* block and can land in none, so the caller may do it again.  (The wait
\* measures with a blockhash that is not the transaction's.)
ExpiredIsDead ==
    \A c \in Calls : call[c].pc = "expired" =>
        tx[c].at = 0 /\ tx[c].until < height["processed"]

\* What a call reports of its transaction is confirmed: no fork undoes it.
AnswerStays ==
    \A c \in Calls : call[c].pc \in {"ok", "failed"} =>
        InBlock(c, height["confirmed"]) /\ (tx[c].ok <=> call[c].pc = "ok")

\* A setup call for an account that was reported as existing sends nothing.
CreateIsNoop ==
    \A c \in Calls : call[c].kind = "create" /\ call[c].acct \in call[c].told
        => ~tx[c].sent

\* A deposit made after every setup call reported success does not fail for
\* want of an account.
DepositFindsAccounts ==
    \A c \in Calls : call[c].kind = "deposit" /\ call[c].told = Accounts
        => call[c].pc # "failed"

\* Every wait ends: the transaction is confirmed or its blockhash expires.
WaitsEnd == \A c \in Calls : call[c].pc = "confirm" ~> call[c].pc \in Answers
=============================================================================
