--------------------------- MODULE MCBatchedProvider ---------------------------
(***************************************************************************)
(* Calls and waitForTransaction are explored one at a time: once a call    *)
(* was made nobody waits for a transaction, none is mined, and there is at *)
(* most one socket; and while somebody waits, which looks at no block      *)
(* number, one block is announced again and again.  The two meet only in   *)
(* the sources and in the newest block, which sockets and clients change   *)
(* in both.                                                                *)
(***************************************************************************)
EXTENDS BatchedProvider

OneAtATime ==
  /\ (\E c \in Calls : asked'[c] # NotAsked) =>
       /\ \A w \in Waiters : waiting'[w] = "idle"
       /\ transaction' = "pending" /\ open' \subseteq {1}
  /\ (\E w \in Waiters : waiting'[w] # "idle") => seenBlock' <= 1

(* Sockets differ in nothing but their numbers: the first free one is used. *)
FirstFree == \A k \in open' \ open : 1..(k - 1) \subseteq open

Socket(step) == step /\ LoseRequests /\ OneAtATime /\ FirstFree
Below(step) == step /\ UNCHANGED batchVars /\ OneAtATime
Batch(step) == step /\ UNCHANGED providerVars /\ OneAtATime

(* The disjuncts of Next, one at a time.                                   *)
MCNext ==
  \/ Socket(UserOpensWebSocket)
  \/ Socket(UserClosesWebSocket)
  \/ Socket(Reconnects)
  \/ \E k \in Sockets : Socket(SocketConnects(k))
  \/ \E k \in Sockets : Socket(ConnectionLost(k))
  \/ \E s \in Sources, block \in Blocks : Below(OnBlock(s, block))
  \/ Below(CallBlockListeners)
  \/ \E client \in Clients : Below(On(client))
  \/ \E client \in Clients : Below(Off(client))
  \/ Below(TransactionSpreads)
  \/ \E w \in Waiters : Below(WaitForTransaction(w))
  \/ \E w \in Waiters : Below(CallWaiter(w))
  \/ \E w \in Waiters : Below(DelayEnds(w))
  \/ \E w \in Waiters : Below(NoReceipt(w))
  \/ \E w \in Waiters : Below(Receipt(w))
  \/ \E w \in Waiters : Below(AnswerFromBehind(w))
  \/ \E w \in Waiters : Below(NoBlock(w))
  \/ \E w \in Waiters : Below(Block(w))
  \/ \E w \in Waiters : Below(RequestFails(w))
  \/ \E c \in Calls : Batch(Call(c))
  \/ \E c \in Calls : Batch(Resolved(c))
  \/ Batch(DispatchCalls)
  \/ \E r \in requests : Batch(Answer(r))
  \/ \E r \in requests : Batch(Fail(r))
  \/ \E r \in requests : Batch(HeaderNotFound(r))

MCSpec == Init /\ [][MCNext]_vars /\ Fairness
===============================================================================
