----------------------------- MODULE QueryTasks -----------------------------
(***************************************************************************)
(* Workflow queries on the server: the query_tasks table, the              *)
(* QueryWorkflowExecution handlers that wait on it and the workers that    *)
(* answer.  Every statement commits alone.  A handler's context ends at    *)
(* its deadline or when its client goes away, and from then on every       *)
(* statement run under it fails.                                           *)
(***************************************************************************)
EXTENDS Naturals

CONSTANTS
    Query,        \* QueryWorkflowExecution calls
    MaxExpiries,  \* bound: leases that lapse while a worker is at work
    MaxLost       \* bound: dispatches that reach no worker

ASSUME QueryAssumption == MaxExpiries \in Nat /\ MaxLost \in Nat

VARIABLES
    rows,      \* query_tasks
    nextId,    \* its task_id sequence
    caller,    \* the handler of each query
    ctx,       \* is the handler's context alive?
    tokens,    \* query task tokens workers hold
    accepted,  \* ghost: the answers workers were told were recorded
    spent

vars == <<rows, nextId, caller, ctx, tokens, accepted, spent>>

RowStatus == {"PENDING", "STARTED", "COMPLETED", "FAILED"}
Row == [id : Nat, query : Query, status : RowStatus, lease : Nat]
Token == [id : Nat, query : Query, lease : Nat]
Answers == {"COMPLETED", "FAILED"}

(* Where the handler is, and in the end what its client was told.          *)
CallerState ==
    [at : {"idle", "read", "select", "abandon"}]
    \cup [at : {"delete", "returned"}, told : Answers \cup {"error", "timeout"},
          lease : Nat]
At(s) == [at |-> s]
Told(s, what, lease) == [at |-> s, told |-> what, lease |-> lease]

Init ==
    /\ rows = {} /\ nextId = 1
    /\ caller = [q \in Query |-> At("idle")]
    /\ ctx = [q \in Query |-> TRUE]
    /\ tokens = {} /\ accepted = {}
    /\ spent = [expiries |-> 0, lost |-> 0]

Goto(q, s) == caller' = [caller EXCEPT ![q] = s]

RowsOf(q) == {row \in rows : row.query = q}

-----------------------------------------------------------------------------
(* QueryWorkflowExecution.                                                 *)

(* EnqueueQuery, for a run that exists: the row, then the 10 s deadline.   *)
EnqueueQuery(q) ==
    /\ caller[q].at = "idle"
    /\ rows' = rows \cup {[id |-> nextId, query |-> q, status |-> "PENDING",
                           lease |-> 0]}
    /\ nextId' = nextId + 1
    /\ Goto(q, At("read"))
    /\ UNCHANGED <<ctx, tokens, accepted, spent>>

(* ErrWorkflowNotFound                                                     *)
EnqueueNotFound(q) ==
    /\ caller[q].at = "idle"
    /\ Goto(q, Told("returned", "error", 0))
    /\ UNCHANGED <<rows, nextId, ctx, tokens, accepted, spent>>

(* Mutant: the wait has no deadline.                                       *)
ContextNeverEnds(q) == FALSE /\ UNCHANGED vars

ContextEnds(q) ==
    /\ ctx[q] /\ caller[q].at \notin {"idle", "returned"}
    /\ ctx' = [ctx EXCEPT ![q] = FALSE]
    /\ UNCHANGED <<rows, nextId, caller, tokens, accepted, spent>>

(* GetQueryResult and the switch on its status.                            *)
GetQueryResult(q) ==
    /\ caller[q].at = "read" /\ ctx[q]
    /\ \E row \in RowsOf(q) :
          Goto(q, IF row.status \in Answers
                  THEN Told("delete", row.status, row.lease) ELSE At("select"))
    /\ UNCHANGED <<rows, nextId, ctx, tokens, accepted, spent>>

(* The read fails with its context: the handler returns there and then.    *)
GetQueryResultFails(q) ==
    /\ caller[q].at = "read" /\ ~ctx[q]
    /\ Goto(q, Told("returned", "error", 0))
    /\ UNCHANGED <<rows, nextId, ctx, tokens, accepted, spent>>

(* DeleteQueryTask; an error is logged and the answer returned all the     *)
(* same.                                                                   *)
DeleteAnswered(q) ==
    /\ caller[q].at = "delete"
    /\ rows' = IF ctx[q] THEN rows \ RowsOf(q) ELSE rows
    /\ Goto(q, [caller[q] EXCEPT !.at = "returned"])
    /\ UNCHANGED <<nextId, ctx, tokens, accepted, spent>>

(* select: the next tick, or the context's end; when both are ready Go     *)
(* takes either.                                                           *)
Tick(q) ==
    /\ caller[q].at = "select"
    /\ Goto(q, At("read"))
    /\ UNCHANGED <<rows, nextId, ctx, tokens, accepted, spent>>

GiveUp(q) ==
    /\ caller[q].at = "select" /\ ~ctx[q]
    /\ Goto(q, At("abandon"))
    /\ UNCHANGED <<rows, nextId, ctx, tokens, accepted, spent>>

(* Mutant: DeleteQueryTask(ctx), which has ended.                          *)
LeaveAbandoned(q) ==
    /\ caller[q].at = "abandon"
    /\ rows' = IF ctx[q] THEN rows \ RowsOf(q) ELSE rows
    /\ Goto(q, Told("returned", "timeout", 0))
    /\ UNCHANGED <<nextId, ctx, tokens, accepted, spent>>

(* DeleteQueryTask(context.WithoutCancel(ctx))                             *)
DeleteAbandoned(q) ==
    /\ caller[q].at = "abandon"
    /\ rows' = rows \ RowsOf(q)
    /\ Goto(q, Told("returned", "timeout", 0))
    /\ UNCHANGED <<nextId, ctx, tokens, accepted, spent>>

-----------------------------------------------------------------------------
(* The workers' side.                                                      *)

(* A dequeue's UPDATE, and the token made of the row it returns.           *)
Leased(row) ==
    LET n == row.lease + 1 IN [row EXCEPT !.status = "STARTED", !.lease = n]
TokenOf(row) == [id |-> row.id, query |-> row.query, lease |-> row.lease]

(* DequeueQueryTask, the oldest first, and buildQueryDispatch; what cannot *)
(* be delivered stays leased.                                              *)
DispatchQuery(delivered) ==
    /\ delivered \/ spent.lost < MaxLost
    /\ \E row \in rows :
          /\ row.status = "PENDING"
          /\ \A o \in rows : o.status = "PENDING" => row.id <= o.id
          /\ rows' = (rows \ {row}) \cup {Leased(row)}
          /\ tokens' = IF delivered THEN tokens \cup {TokenOf(Leased(row))}
                       ELSE tokens
    /\ spent' = IF delivered THEN spent ELSE [spent EXCEPT !.lost = @ + 1]
    /\ UNCHANGED <<nextId, caller, ctx, accepted>>

(* Mutant: WHERE task_id = $1                                              *)
HoldsAnyLease(row, tok) == row.id = tok.id

(* WHERE task_id = $1 AND lease_token = $2, whatever the status; reaping   *)
(* sets the token to NULL.                                                 *)
Holds(row, tok) ==
    row.id = tok.id /\ row.status # "PENDING" /\ row.lease = tok.lease

(* CompleteQuery, FailQuery; 0 rows affected is ErrTaskLeaseExpired.       *)
RespondQueryTask(tok, what) ==
    /\ tokens' = tokens \ {tok}
    /\ rows' = {IF Holds(row, tok) THEN [row EXCEPT !.status = what] ELSE row :
                   row \in rows}
    /\ accepted' = IF \E row \in rows : Holds(row, tok)
                   THEN accepted \cup {[query |-> tok.query, lease |-> tok.lease,
                                        told |-> what]}
                   ELSE accepted
    /\ UNCHANGED <<nextId, caller, ctx, spent>>

(* Mutant: the reaper resets every row whose lease is over.                *)
ReapAny(row) == row.status # "PENDING"

Expired(row) == row.status = "STARTED"

Held(row) == \E tok \in tokens : Holds(row, tok)

ReapExpiredQueryTask ==
    /\ \E row \in rows :
          /\ Expired(row)
          /\ IF Held(row) THEN /\ spent.expiries < MaxExpiries
                               /\ spent' = [spent EXCEPT !.expiries = @ + 1]
             ELSE UNCHANGED spent
          /\ rows' = (rows \ {row}) \cup {[row EXCEPT !.status = "PENDING"]}
    /\ UNCHANGED <<nextId, caller, ctx, tokens, accepted>>

-----------------------------------------------------------------------------
Handler(q) ==
    \/ GetQueryResult(q) \/ GetQueryResultFails(q) \/ DeleteAnswered(q)
    \/ Tick(q) \/ GiveUp(q) \/ DeleteAbandoned(q)

Next ==
    \/ \E q \in Query :
          EnqueueQuery(q) \/ EnqueueNotFound(q) \/ ContextEnds(q) \/ Handler(q)
    \/ DispatchQuery(TRUE) \/ DispatchQuery(FALSE)
    \/ \E tok \in tokens, what \in Answers : RespondQueryTask(tok, what)
    \/ ReapExpiredQueryTask

Spec == Init /\ [][Next]_vars

(* A handler runs on and its deadline passes.  No worker need ever poll.   *)
FairSpec ==
    /\ Spec
    /\ \A q \in Query : WF_vars(Handler(q)) /\ WF_vars(ContextEnds(q))

-----------------------------------------------------------------------------
(* Rows, handlers and tokens are well formed.                              *)
TypeOK ==
    /\ rows \subseteq Row /\ nextId \in Nat
    /\ caller \in [Query -> CallerState] /\ ctx \in [Query -> BOOLEAN]
    /\ tokens \subseteq Token
    /\ accepted \subseteq [query : Query, lease : Nat, told : Answers]
    /\ spent \in [expiries : Nat, lost : Nat]

(* Of all the workers a query was dispatched to, through lapsed leases and *)
(* late answers, one at most is told that its answer was recorded; and the *)
(* answer a client gets is that one (CompleteQuery, FailQuery).            *)
OneAnswer ==
    /\ \A a, b \in accepted : a.query = b.query => a = b
    /\ \A q \in Query :
          (caller[q].at \in {"delete", "returned"} /\ caller[q].told \in Answers)
          => [query |-> q, lease |-> caller[q].lease, told |-> caller[q].told]
                \in accepted

(* Every call of QueryWorkflowExecution returns, also when no worker ever  *)
(* polls.                                                                  *)
EveryQueryReturns ==
    \A q \in Query : caller[q].at # "idle" ~> caller[q].at = "returned"

(* When QueryWorkflowExecution's handler has returned, its row is gone,    *)
(* unless its context ended before a statement it ran under it: a read     *)
(* whose error it returns, or the delete after an answer, whose error it   *)
(* only logs.  Those rows nobody deletes.                                  *)
RowsCleanedUp ==
    \A q \in Query :
        (caller[q].at = "returned" /\ (ctx[q] \/ caller[q].told = "timeout"))
        => RowsOf(q) = {}
=============================================================================
