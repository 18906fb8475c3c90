--------------------------- MODULE SendTransaction ---------------------------
(***************************************************************************)
(* The two ways the client sends a signed transaction and learns what      *)
(* became of it:                                                           *)
(*   withRetry  sendAndConfirmRawTransactionWithRetry, in                  *)
(*              src/utils/sendTransactionsUtils.ts                         *)
(*   withLogs   buildAndSendTxnWithLogs over                               *)
(*              sendAndConfirmVersionedTransaction, in                     *)
(*              src/utils/instruction.ts                                   *)
(* One flow sends one transaction at a time.  Transactions of calls that   *)
(* have ended may still be on their way.  The nodes are not part of the    *)
(* repository: a transaction on its way lands, with or without an error,   *)
(* or is dropped when its block hash expires.                              *)
(***************************************************************************)
EXTENDS Integers, FiniteSets

CONSTANTS
  Tx,       \* signed transactions, by signature
  NoTx

ASSUME TxAssumption == NoTx \notin Tx

VARIABLES
  sender,     \* which of the two functions the program uses
  sending,    \* the transaction the call under way is about, NoTx if none
  await,      \* what that call waits for, or how the last call ended
  inFlight,   \* transactions that a node holds and may still execute
  outcome     \* of each transaction, on the ledger
  
sendVars == <<sender, sending, await, inFlight, outcome>>

Sender == {"withRetry", "withLogs"}
Await == {"send", "blockhash", "confirm", "details", "logs"}
Ended == {"returned", "threw"}

\* One call at a time, and an end only for a transaction.
TypeOK ==
  /\ sender \in Sender
  /\ sending \in Tx \union {NoTx}
  /\ await \in Await \union Ended \union {"none"}
  /\ inFlight \subseteq Tx
  /\ outcome \in [Tx -> {"none", "ok", "err"}]
  /\ await = "none" <=> sending = NoTx

Init ==
  /\ sender \in Sender
  /\ sending = NoTx
  /\ await = "none"
  /\ inFlight = {}
  /\ outcome = [t \in Tx |-> "none"]

Idle == await \notin Await

\* A transaction is signed once, with a block hash of its own.
New(t) == t \notin inFlight /\ outcome[t] = "none" /\ t # sending

\* Mutant: withRetry sends before it has a block hash to confirm with.
sendFirst == "send"

firstAwait == IF sender = "withRetry" THEN "blockhash" ELSE "send"

Call(t) ==
  /\ Idle
  /\ New(t)
  /\ sending' = t
  /\ await' = firstAwait
  /\ UNCHANGED <<sender, inFlight, outcome>>

Throw ==
  /\ await' = "threw"
  /\ UNCHANGED <<sender, sending, outcome>>

Return ==
  /\ await' = "returned"
  /\ UNCHANGED <<sender, sending, inFlight, outcome>>

WaitFor(reply) ==
  /\ await' = reply
  /\ UNCHANGED <<sender, sending, outcome>>

\* withRetry fetches its block hash first and then sends without waiting: the
\* promise of sendRawTransaction is dropped, and nothing is sent again.
\* withLogs fetches it after the transaction was sent.
BlockhashFetched ==
  /\ await = "blockhash"
  /\ \/ /\ sender = "withRetry"
        /\ WaitFor("confirm") /\ inFlight' \in {inFlight, inFlight \union {sending}}
     \/ /\ sender = "withLogs"
        /\ WaitFor("confirm") /\ UNCHANGED inFlight
     \/ Throw /\ UNCHANGED inFlight

\* withLogs waits for the node: a rejection may come from a node that has
\* passed the transaction on.
SendAnswered ==
  /\ await = "send"
  /\ \/ WaitFor("blockhash") /\ inFlight' = inFlight \union {sending}
     \/ Throw /\ inFlight' \in {inFlight, inFlight \union {sending}}

\* Mutant: withLogs takes any answer for a success.
anyAnswer(t) == outcome[t] # "none"

landedWell(t) == outcome[t] = "ok"

Confirmed ==
  /\ await = "confirm"
  /\ landedWell(sending)
  /\ IF sender = "withRetry" THEN Return
     ELSE (Return \/ WaitFor("logs")) /\ UNCHANGED inFlight

LandedWithError ==
  /\ await = "confirm"
  /\ outcome[sending] = "err"
  /\ WaitFor("details")
  /\ UNCHANGED inFlight

\* confirmTransaction gives up when the block height passes the last valid one
\* of the hash it was given.  That is another hash than the transaction's
\* (withLogs asks for a 'finalized' one, which is older), read from a node that
\* may lag: the transaction may have landed unnoticed, or may still land.
\* withRetry catches the error and returns the signature; the catch of
\* withLogs reads the logs of an error that has none, and throws.
GiveUp ==
  /\ await = "confirm"
  /\ IF sender = "withRetry" THEN Return ELSE Throw /\ UNCHANGED inFlight

\* Whatever getTransaction answers.
DetailsFetched ==
  /\ await = "details"
  /\ Throw /\ UNCHANGED inFlight

\* buildAndSendTxn asks for the logs of a success, in the same try.
LogsFetched ==
  /\ await = "logs"
  /\ Return \/ (Throw /\ UNCHANGED inFlight)

\* The call goes on.
Continue ==
  \/ BlockhashFetched
  \/ SendAnswered
  \/ Confirmed
  \/ LandedWithError
  \/ GiveUp
  \/ DetailsFetched
  \/ LogsFetched

Land(t, result) ==
  /\ t \in inFlight
  /\ inFlight' = inFlight \ {t}
  /\ outcome' = [outcome EXCEPT ![t] = result]
  /\ UNCHANGED <<sender, sending, await>>

Drop(t) ==
  /\ t \in inFlight
  /\ inFlight' = inFlight \ {t}
  /\ UNCHANGED <<sender, sending, await, outcome>>

Network == \E t \in Tx : Land(t, "ok") \/ Land(t, "err") \/ Drop(t)

Next == (\E t \in Tx : Call(t)) \/ Continue \/ Network

Spec == Init /\ [][Next]_sendVars

-----------------------------------------------------------------------------
\* What a caller may conclude from how the call ended.  withLogs returns a
\* signature only of a transaction that landed without an error.
ReturnedMeansLanded ==
  sender = "withLogs" /\ await = "returned" => outcome[sending] = "ok"

\* withRetry throws only if the transaction has no effect and never will have:
\* its caller may build it again without executing it twice.  (Its return
\* says nothing, and neither does a throw of withLogs.)
ThrewMeansNoEffect ==
  sender = "withRetry" /\ await = "threw" => sending \notin inFlight /\ outcome[sending] # "ok"

==============================================================================
