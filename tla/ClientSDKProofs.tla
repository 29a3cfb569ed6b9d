--------------------------- MODULE ClientSDKProofs ---------------------------
(***************************************************************************)
(* Proofs about the callers and the frontend: what repeating a start under *)
(* one request id can and cannot create; what becomes of the sends of a    *)
(* signal, a cancellation or a termination; what a history and a listing   *)
(* have that were read page by page; and which run a Get ends on.          *)
(***************************************************************************)
EXTENDS ClientSDK, WellFoundedInduction, FiniteSetTheorems, SequenceTheorems, TLAPS

-----------------------------------------------------------------------------
(* Tables that grow.                                                       *)

IsTable(s) == s \in Seq({s[i] : i \in DOMAIN s})

LEMMA TableIs ==
    ASSUME NEW s, IsTable(s)
    PROVE  Len(s) \in Nat /\ DOMAIN s = 1 .. Len(s)
BY DEF IsTable

LEMMA SeqOfMore ==
    ASSUME NEW S, NEW T, S \subseteq T, NEW s \in Seq(S)
    PROVE  s \in Seq(T)
OBVIOUS

LEMMA TableAppend ==
    ASSUME NEW s, IsTable(s), NEW e
    PROVE  /\ IsTable(Append(s, e)) /\ Len(Append(s, e)) = Len(s) + 1
           /\ \A i \in 1 .. Len(s) : Append(s, e)[i] = s[i]
           /\ Append(s, e)[Len(s) + 1] = e
<1> DEFINE S == {s[i] : i \in DOMAIN s}
           T == S \cup {e}
           a == Append(s, e)
<1>1. s \in Seq(T)
  BY SeqOfMore DEF IsTable
<1> HIDE DEF S, T
<1>2. e \in T
  BY DEF T
<1>3. a \in Seq(T) /\ Len(a) = Len(s) + 1 /\ DOMAIN a = 1 .. (Len(s) + 1)
      /\ (\A i \in 1 .. Len(s) : a[i] = s[i]) /\ a[Len(s) + 1] = e
      /\ Len(s) \in Nat /\ DOMAIN s = 1 .. Len(s)
  BY <1>1, <1>2
<1> HIDE DEF a
<1>4. T = {a[i] : i \in DOMAIN a}
  BY <1>3 DEF T, S
<1> QED
  BY <1>3, <1>4 DEF IsTable, a

LEMMA TableUpdate ==
    ASSUME NEW s, IsTable(s), NEW r \in DOMAIN s, NEW v
    PROVE  LET a == [s EXCEPT ![r] = v]
           IN  /\ IsTable(a) /\ Len(a) = Len(s) /\ a[r] = v
               /\ \A i \in DOMAIN s : i # r => a[i] = s[i]
<1> DEFINE a == [s EXCEPT ![r] = v]
           T == {a[i] : i \in DOMAIN a}
<1>1. Len(s) \in Nat /\ DOMAIN s = 1 .. Len(s)
  BY TableIs
<1>2. a = [i \in 1 .. Len(s) |-> IF i = r THEN v ELSE s[i]]
  BY <1>1 DEF IsTable
<1>3. DOMAIN a = 1 .. Len(s) /\ a[r] = v /\ \A i \in DOMAIN s : i # r => a[i] = s[i]
  BY <1>1, <1>2
<1> HIDE DEF a
<1>4. \A i \in 1 .. Len(s) : a[i] \in T
  BY <1>3
<1> HIDE DEF T
<1>5. a \in [1 .. Len(s) -> T]
  BY <1>2, <1>4
<1>6. a \in Seq(T) /\ Len(a) = Len(s)
  BY <1>1, <1>5
<1> QED
  BY <1>3, <1>6 DEF IsTable, T, a

-----------------------------------------------------------------------------
(* Runs and the current run of a workflow.                                 *)

(* current_executions points at the last run of its workflow and has the   *)
(* request id that run was created under.                                  *)
CurrentInv ==
    /\ \A k \in DOMAIN current :
          LET x == current[k].run
          IN  /\ x \in DOMAIN execs /\ execs[x].slot = k
              /\ execs[x].req = current[k].req
              /\ \A y \in DOMAIN execs : execs[y].slot = k => y <= x
    /\ \A y \in DOMAIN execs : execs[y].slot \in DOMAIN current

(* The request id of a continuation is its own.                            *)
ContinuedIds ==
    \A x \in DOMAIN execs : \A r, n : execs[x].req = <<"continued", r, n>> => n = x

RunColumns == {"slot", "req", "hist", "status", "due", "from", "start"}

RunsInv ==
    /\ IsTable(execs) /\ \A x \in DOMAIN execs : RunColumns \subseteq DOMAIN execs[x]
    /\ CurrentInv /\ ContinuedIds /\ StartedOnce

(* A step that writes to runs leaves their workflow and request id alone.  *)
SameRuns(a, b) ==
    /\ IsTable(b) /\ Len(b) = Len(a)
    /\ \A x \in DOMAIN a : /\ RunColumns \subseteq DOMAIN b[x]
                           /\ b[x].slot = a[x].slot /\ b[x].req = a[x].req

RunAdded(rows, row) ==
    /\ execs' = Append(rows, row)
    /\ current' = Put(current, row.slot, [run |-> Len(rows) + 1, req |-> row.req])

(* An id that the current run of the workflow does not have, or nobody.    *)
Unlike(row) ==
    \/ row.slot \notin DOMAIN current
    \/ current[row.slot].req # row.req
    \/ \A x \in DOMAIN execs : execs[x].req # row.req

LEMMA SameRunsKeep ==
    ASSUME RunsInv, SameRuns(execs, execs'), current' = current
    PROVE  RunsInv'
<1>1. /\ Len(execs) \in Nat /\ DOMAIN execs = 1 .. Len(execs)
      /\ DOMAIN execs' = 1 .. Len(execs) /\ IsTable(execs')
  BY TableIs DEF RunsInv, SameRuns
<1>2. \A x \in DOMAIN execs : /\ execs'[x].slot = execs[x].slot
                              /\ execs'[x].req = execs[x].req
                              /\ RunColumns \subseteq DOMAIN execs'[x]
  BY DEF SameRuns
<1>3. CurrentInv'
  BY <1>1, <1>2 DEF RunsInv, CurrentInv
<1>4. ContinuedIds'
  BY <1>1, <1>2 DEF RunsInv, ContinuedIds
<1>5. StartedOnce'
  <2> SUFFICES ASSUME NEW r \in DOMAIN execs', NEW s \in DOMAIN execs', r < s,
                      execs'[r].slot = execs'[s].slot, execs'[r].req = execs'[s].req
               PROVE  \E x \in (r + 1) .. (s - 1) : /\ execs'[x].slot = execs'[r].slot
                                                    /\ execs'[x].req # execs'[r].req
    BY DEF StartedOnce
  <2>1. PICK x \in (r + 1) .. (s - 1) : /\ execs[x].slot = execs[r].slot
                                        /\ execs[x].req # execs[r].req
    BY <1>1, <1>2 DEF RunsInv, StartedOnce
  <2>2. x \in DOMAIN execs
    BY <1>1
  <2> QED
    BY <1>1, <1>2, <2>1, <2>2
<1> QED
  BY <1>1, <1>2, <1>3, <1>4, <1>5 DEF RunsInv, IsTable, RunColumns

LEMMA NewRunKeeps ==
    ASSUME RunsInv, NEW rows, SameRuns(execs, rows), NEW row,
           RunColumns \subseteq DOMAIN row, RunAdded(rows, row), Unlike(row),
           \A r, n : row.req = <<"continued", r, n>> => n = Len(execs) + 1
    PROVE  RunsInv'
<1> DEFINE n == Len(execs)
           m == Len(execs) + 1
<1>1. /\ n \in Nat /\ DOMAIN execs = 1 .. n /\ IsTable(rows) /\ Len(rows) = n
      /\ DOMAIN rows = 1 .. n
  BY TableIs DEF RunsInv, SameRuns
<1>2. /\ IsTable(execs') /\ DOMAIN execs' = 1 .. m /\ execs'[m] = row
      /\ \A x \in 1 .. n : execs'[x] = rows[x]
  BY <1>1, TableAppend, TableIs DEF RunAdded
<1>3. \A x \in 1 .. n : /\ execs'[x].slot = execs[x].slot /\ execs'[x].req = execs[x].req
                        /\ RunColumns \subseteq DOMAIN execs'[x]
  BY <1>1, <1>2 DEF SameRuns
<1>4. /\ m \in DOMAIN execs' /\ \A x \in DOMAIN execs' : x \in 1 .. n \/ x = m
      /\ \A x \in 1 .. n : x \in DOMAIN execs' /\ x < m /\ x \in Nat
      /\ m \in Nat
  BY <1>1, <1>2
<1>5. /\ DOMAIN current' = DOMAIN current \cup {row.slot}
      /\ current'[row.slot].run = m /\ current'[row.slot].req = row.req
      /\ \A k \in DOMAIN current : k # row.slot => current'[k] = current[k]
  BY <1>1 DEF RunAdded, Put
<1> HIDE DEF m, n
<1>6. CurrentInv'
  <2>1. ASSUME NEW k \in DOMAIN current', NEW x, x = current'[k].run
        PROVE  /\ x \in DOMAIN execs' /\ execs'[x].slot = k
               /\ execs'[x].req = current'[k].req
               /\ \A y \in DOMAIN execs' : execs'[y].slot = k => y <= x
    <3>1. CASE k = row.slot
      BY <1>2, <1>4, <1>5, <2>1, <3>1
    <3>2. CASE k # row.slot
      <4>1. /\ x \in 1 .. n /\ execs[x].slot = k /\ execs[x].req = current[k].req
            /\ \A y \in 1 .. n : execs[y].slot = k => y <= x
            /\ current'[k] = current[k]
        BY <1>1, <1>5, <2>1, <3>2 DEF RunsInv, CurrentInv
      <4> QED
        BY <1>2, <1>3, <1>4, <3>2, <4>1
    <3> QED
      BY <3>1, <3>2
  <2>2. \A y \in DOMAIN execs' : execs'[y].slot \in DOMAIN current'
    BY <1>1, <1>2, <1>3, <1>4, <1>5 DEF RunsInv, CurrentInv
  <2> QED
    BY <2>1, <2>2 DEF CurrentInv
<1>7. ContinuedIds'
  <2> SUFFICES ASSUME NEW x \in DOMAIN execs', NEW r, NEW k,
                      execs'[x].req = <<"continued", r, k>>
               PROVE  k = x
    BY DEF ContinuedIds
  <2>1. CASE x = m
    BY <1>2, <2>1 DEF m
  <2>2. CASE x \in 1 .. n
    BY <1>1, <1>3, <2>2 DEF RunsInv, ContinuedIds
  <2> QED
    BY <1>4, <2>1, <2>2
<1>8. StartedOnce'
  <2> SUFFICES ASSUME NEW r \in DOMAIN execs', NEW s \in DOMAIN execs', r < s,
                      execs'[r].slot = execs'[s].slot, execs'[r].req = execs'[s].req
               PROVE  \E x \in (r + 1) .. (s - 1) : /\ execs'[x].slot = execs'[r].slot
                                                    /\ execs'[x].req # execs'[r].req
    BY DEF StartedOnce
  <2>1. r \in 1 .. n
    BY <1>1, <1>4 DEF m
  <2>2. CASE s \in 1 .. n
    <3>1. PICK x \in (r + 1) .. (s - 1) : /\ execs[x].slot = execs[r].slot
                                          /\ execs[x].req # execs[r].req
      BY <1>1, <1>3, <2>1, <2>2 DEF RunsInv, StartedOnce
    <3>2. x \in 1 .. n
      BY <1>1, <2>1, <2>2
    <3> QED
      BY <1>3, <2>1, <3>1, <3>2
  <2>3. CASE s = m
    <3>1. execs[r].slot = row.slot /\ execs[r].req = row.req /\ r \in DOMAIN execs
      BY <1>1, <1>2, <1>3, <2>1, <2>3
    <3>2. row.slot \in DOMAIN current /\ current[row.slot].req # row.req
      BY <3>1 DEF Unlike, RunsInv, CurrentInv
    <3>3. PICK x : x = current[row.slot].run
      OBVIOUS
    <3>4. /\ x \in 1 .. n /\ execs[x].slot = row.slot /\ execs[x].req # row.req
          /\ r <= x
      BY <1>1, <3>1, <3>2, <3>3 DEF RunsInv, CurrentInv
    <3>5. r # x
      BY <3>1, <3>4
    <3>6. x \in (r + 1) .. (s - 1)
      BY <1>1, <2>1, <2>3, <3>4, <3>5 DEF m
    <3> QED
      BY <1>3, <2>1, <3>1, <3>4, <3>6
  <2> QED
    BY <1>4, <2>2, <2>3
<1> QED
  BY <1>2, <1>3, <1>4, <1>6, <1>7, <1>8 DEF RunsInv, IsTable, RunColumns

-----------------------------------------------------------------------------
(* The steps.                                                              *)

LEMMA RunUpdated ==
    ASSUME RunsInv, NEW r \in DOMAIN execs, NEW v, RunColumns \subseteq DOMAIN v,
           v.slot = execs[r].slot, v.req = execs[r].req
    PROVE  SameRuns(execs, [execs EXCEPT ![r] = v])
<1> DEFINE a == [execs EXCEPT ![r] = v]
<1>1. /\ IsTable(a) /\ Len(a) = Len(execs) /\ a[r] = v
      /\ \A i \in DOMAIN execs : i # r => a[i] = execs[i]
  BY TableUpdate DEF RunsInv
<1> HIDE DEF a
<1>2. SameRuns(execs, a)
  BY <1>1 DEF SameRuns, RunsInv
<1> QED
  BY <1>2 DEF a

LEMMA EventsAppended ==
    ASSUME NEW row, RunColumns \subseteq DOMAIN row, NEW events, NEW k
    PROVE  LET v == Appended(row, events, k)
           IN  RunColumns \subseteq DOMAIN v /\ v.slot = row.slot /\ v.req = row.req
BY DEF Appended, RunColumns

LEMMA StatusSet ==
    ASSUME NEW row, RunColumns \subseteq DOMAIN row, NEW st
    PROVE  LET v == [row EXCEPT !.status = st]
           IN  RunColumns \subseteq DOMAIN v /\ v.slot = row.slot /\ v.req = row.req
BY DEF RunColumns

(* What a handler or a worker may do to the tables.                        *)
Extends ==
    /\ current' = current
    /\ \E r \in DOMAIN execs : \E events, k :
          \/ execs' = [execs EXCEPT ![r] = Appended(execs[r], events, k)]
          \/ \E st : execs' = [execs EXCEPT ![r] =
                                [Appended(execs[r], events, k) EXCEPT !.status = st]]

LEMMA ExtendsKeeps ==
    ASSUME RunsInv, Extends
    PROVE  RunsInv'
<1>1. PICK r \in DOMAIN execs : \E events, k :
         \/ execs' = [execs EXCEPT ![r] = Appended(execs[r], events, k)]
         \/ \E st : execs' = [execs EXCEPT ![r] =
                               [Appended(execs[r], events, k) EXCEPT !.status = st]]
  BY DEF Extends
<1>2. PICK events, k :
         \/ execs' = [execs EXCEPT ![r] = Appended(execs[r], events, k)]
         \/ \E st : execs' = [execs EXCEPT ![r] =
                               [Appended(execs[r], events, k) EXCEPT !.status = st]]
  BY <1>1
<1> DEFINE u == Appended(execs[r], events, k)
<1>3. RunColumns \subseteq DOMAIN u /\ u.slot = execs[r].slot /\ u.req = execs[r].req
  BY EventsAppended DEF RunsInv
<1> HIDE DEF u
<1>4. CASE execs' = [execs EXCEPT ![r] = u]
  <2>1. SameRuns(execs, [execs EXCEPT ![r] = u])
    BY <1>3, RunUpdated
  <2> QED
    BY <1>4, <2>1, SameRunsKeep DEF Extends
<1>5. ASSUME NEW st, execs' = [execs EXCEPT ![r] = [u EXCEPT !.status = st]]
      PROVE  RunsInv'
  <2>1. PICK v : v = [u EXCEPT !.status = st]
    OBVIOUS
  <2>2. RunColumns \subseteq DOMAIN v /\ v.slot = execs[r].slot /\ v.req = execs[r].req
    BY <1>3, <2>1, StatusSet
  <2>3. SameRuns(execs, [execs EXCEPT ![r] = v])
    BY <2>2, RunUpdated
  <2> QED
    BY <1>5, <2>1, <2>3, SameRunsKeep DEF Extends
<1> QED
  BY <1>2, <1>4, <1>5 DEF u

LEMMA NewRunIs ==
    ASSUME NEW slot, NEW req, NEW from, NEW by, NEW t
    PROVE  LET v == NewRun(slot, req, from, by, t)
           IN  RunColumns \subseteq DOMAIN v /\ v.slot = slot /\ v.req = req
BY DEF NewRun, RunColumns

LEMMA TwoIds ==
    ASSUME NEW m, NEW r, NEW n
    PROVE  RequestId(m) # <<"continued", r, n>>
<1>1. Len(<<m.c, m.k>>) = 2 /\ Len(<<m.req>>) = 1 /\ Len(<<"continued", r, n>>) = 3
  OBVIOUS
<1>2. <<m.c, m.k>> # <<"continued", r, n>> /\ <<m.req>> # <<"continued", r, n>>
  BY <1>1
<1> QED
  BY <1>2 DEF RequestId

LEMMA StartKeeps ==
    ASSUME RunsInv, NEW m, StartWorkflowExecution(m)
    PROVE  RunsInv'
<1>1. PICK t : Create(execs, NewRun(Slot(m), RequestId(m), NoRun, <<m.c, m.k>>, t))
  BY DEF StartWorkflowExecution
<1>2. PICK row : row = NewRun(Slot(m), RequestId(m), NoRun, <<m.c, m.k>>, t)
  OBVIOUS
<1>3. RunColumns \subseteq DOMAIN row /\ row.slot = Slot(m) /\ row.req = RequestId(m)
  BY <1>2, NewRunIs
<1>4. RunAdded(execs, row)
  BY <1>1, <1>2 DEF Create, RunAdded
<1>5. Unlike(row)
  BY <1>3 DEF StartWorkflowExecution, Recognised, Unlike
<1>6. \A r, n : row.req = <<"continued", r, n>> => n = Len(execs) + 1
  BY <1>3, TwoIds
<1>7. SameRuns(execs, execs)
  BY DEF SameRuns, RunsInv
<1> QED
  BY <1>3, <1>4, <1>5, <1>6, <1>7, NewRunKeeps

LEMMA ContinueKeeps ==
    ASSUME RunsInv, NEW r \in DOMAIN execs, ContinueWorkflowAsNew(r)
    PROVE  RunsInv'
<1>1. PICK t : Create(ContinuedRows(r), NewRun(execs[r].slot, ContinuedId(r), r, Nobody, t))
  BY DEF ContinueWorkflowAsNew
<1>2. PICK row : row = NewRun(execs[r].slot, ContinuedId(r), r, Nobody, t)
  OBVIOUS
<1>3. RunColumns \subseteq DOMAIN row /\ row.slot = execs[r].slot /\ row.req = ContinuedId(r)
  BY <1>2, NewRunIs
<1>4. PICK u : u = Appended(execs[r], <<Event("ContinuedAsNew", Nobody)>>, -1)
  OBVIOUS
<1>5. PICK v : v = [u EXCEPT !.status = "CONTINUED_AS_NEW"]
  OBVIOUS
<1>6. RunColumns \subseteq DOMAIN v /\ v.slot = execs[r].slot /\ v.req = execs[r].req
  BY <1>4, <1>5, EventsAppended, StatusSet DEF RunsInv
<1>7. PICK rows : rows = ContinuedRows(r)
  OBVIOUS
<1>8. rows = [execs EXCEPT ![r] = v]
  BY <1>4, <1>5, <1>7 DEF ContinuedRows
<1>9. SameRuns(execs, rows)
  BY <1>6, <1>8, RunUpdated
<1>10. RunAdded(rows, row)
  BY <1>1, <1>2, <1>7 DEF Create, RunAdded
<1>11. \A q, n : ContinuedId(r) = <<"continued", q, n>> => n = Len(execs) + 1
  BY DEF ContinuedId
<1>12. Unlike(row)
  <2>1. Len(execs) \in Nat /\ DOMAIN execs = 1 .. Len(execs)
    BY TableIs DEF RunsInv
  <2>2. ASSUME NEW x \in DOMAIN execs, execs[x].req = row.req PROVE FALSE
    <3>1. execs[x].req = <<"continued", r, Len(execs) + 1>>
      BY <1>3, <2>2 DEF ContinuedId
    <3>2. Len(execs) + 1 = x
      BY <3>1 DEF RunsInv, ContinuedIds
    <3> QED
      BY <2>1, <3>2
  <2> QED
    BY <2>2 DEF Unlike
<1> QED
  BY <1>3, <1>9, <1>10, <1>11, <1>12, NewRunKeeps

LEMMA HandleKeeps ==
    ASSUME RunsInv, NEW m, Handle(m)
    PROVE  RunsInv'
<1>0. ASSUME current' = current, execs' = execs PROVE RunsInv'
  BY <1>0, SameRunsKeep DEF SameRuns, RunsInv
<1>1. CASE Refuse(m) \/ Missing(m) \/ ConflictsOut(m) \/ StartReplayed(m) \/ StartRefused(m)
  BY <1>0, <1>1 DEF Refuse, Missing, ConflictsOut, StartReplayed, StartRefused, server
<1>2. CASE StartWorkflowExecution(m)
  BY <1>2, StartKeeps
<1>3. CASE SignalWorkflowExecution(m) \/ RequestCancelWorkflowExecution(m)
           \/ TerminateWorkflowExecution(m)
  <2>1. Extends
    BY <1>3 DEF SignalWorkflowExecution, RequestCancelWorkflowExecution,
       WakeWorkflowExecution, TerminateWorkflowExecution, Found, Extends
  <2> QED
    BY <2>1, ExtendsKeeps
<1>4. CASE CreateNamespace(m) \/ ListNamespaces(m) \/ DescribeWorkflowExecution(m)
           \/ GetWorkflowExecutionHistory(m) \/ ListWorkflowExecutions(m)
  BY <1>0, <1>4 DEF CreateNamespace, ListNamespaces, DescribeWorkflowExecution,
     GetWorkflowExecutionHistory, ListWorkflowExecutions, server
<1> QED
  BY <1>1, <1>2, <1>3, <1>4 DEF Handle

LEMMA WorkKeeps ==
    ASSUME RunsInv, NEW r \in DOMAIN execs, Work(r)
    PROVE  RunsInv'
<1>1. CASE ContinueWorkflowAsNew(r)
  BY <1>1, ContinueKeeps
<1>2. CASE WorkflowTaskProgress(r) \/ WorkflowCompletes(r) \/ WorkflowFails(r)
  <2>1. Extends
    BY <1>2 DEF WorkflowTaskProgress, WorkflowCompletes, WorkflowFails, CloseBy, Extends
  <2> QED
    BY <2>1, ExtendsKeeps
<1> QED
  BY <1>1, <1>2 DEF Work

LEMMA RunsInvInit == Init => RunsInv
<1> SUFFICES ASSUME Init PROVE RunsInv
  OBVIOUS
<1>1. execs = << >> /\ current = << >>
  BY DEF Init
<1> QED
  BY <1>1 DEF RunsInv, IsTable, CurrentInv, ContinuedIds, StartedOnce

LEMMA RunsInvStep == RunsInv /\ [Next]_vars => RunsInv'
<1> SUFFICES ASSUME RunsInv, [Next]_vars PROVE RunsInv'
  OBVIOUS
<1>0. ASSUME current' = current, execs' = execs PROVE RunsInv'
  BY <1>0, SameRunsKeep DEF SameRuns, RunsInv
<1>1. ASSUME NEW c \in Client, Invoke(c) PROVE RunsInv'
  BY <1>0, <1>1 DEF Invoke, StartWorkflow, SignalWorkflow, CancelWorkflow,
     TerminateWorkflow, CreateNamespaceCall, ListNamespacesCall, DescribeWorkflow,
     GetWorkflowHistory, ListWorkflows, Send
<1>2. ASSUME NEW c \in Client, Return(c) PROVE RunsInv'
  BY <1>0, <1>2 DEF Return, CallReturns, GetDescribed, HistoryPaged, ListPaged,
     CallFails, CallAgain, Finish, Continue, Rest
<1>3. ASSUME NEW c \in Client, OutcomeUnknown(c) PROVE RunsInv'
  BY <1>0, <1>3 DEF OutcomeUnknown
<1>4. ASSUME NEW m \in net, Serve(m) PROVE RunsInv'
  BY <1>4, HandleKeeps DEF Serve
<1>5. ASSUME NEW m \in net, RequestLost(m) PROVE RunsInv'
  BY <1>0, <1>5 DEF RequestLost
<1>6. ASSUME NEW r \in DOMAIN execs, Worker(r) PROVE RunsInv'
  BY <1>6, WorkKeeps DEF Worker
<1>7. CASE Done \/ UNCHANGED vars
  BY <1>0, <1>7 DEF Done, vars
<1> QED
  BY <1>1, <1>2, <1>3, <1>4, <1>5, <1>6, <1>7 DEF Next

(* A start made again under its request id creates a second run only after *)
(* another run has taken the workflow over, however late the sends of the  *)
(* call arrive (StartWorkflowExecution compares create_request_id).        *)
THEOREM RequestIdsStartOnce == Spec => []StartedOnce
<1>1. RunsInv => StartedOnce
  BY DEF RunsInv
<1> QED
  BY <1>1, RunsInvInit, RunsInvStep, PTL DEF Spec

-----------------------------------------------------------------------------
(* What histories record.                                                  *)

(* Event i of run x of the table ex records send k of client c.            *)
Rec(ex, x, i, c, k) ==
    x \in DOMAIN ex /\ i \in DOMAIN ex[x].hist /\ ex[x].hist[i].by = <<c, k>>

Silent(ex, new) == \A x, i, c, k : Rec(new, x, i, c, k) <=> Rec(ex, x, i, c, k)

(* One event more, which records send k of c.                              *)
AddsAt(ex, new, y, j, c, k) ==
    \A x, i, d, n : Rec(new, x, i, d, n)
       <=> Rec(ex, x, i, d, n) \/ (x = y /\ i = j /\ d = c /\ n = k)

AddsOne(ex, new, c, k) == \E y, j : AddsAt(ex, new, y, j, c, k)

HistInv == \A x \in DOMAIN execs : IsTable(execs[x].hist)

LEMMA ConcatIs ==
    ASSUME NEW s, IsTable(s), NEW t, IsTable(t)
    PROVE  /\ IsTable(s \o t) /\ Len(s \o t) = Len(s) + Len(t)
           /\ \A i \in 1 .. Len(s) : (s \o t)[i] = s[i]
           /\ \A j \in 1 .. Len(t) : (s \o t)[Len(s) + j] = t[j]
<1> DEFINE S == {s[i] : i \in DOMAIN s}
           U == {t[i] : i \in DOMAIN t}
           T == S \cup U
           a == s \o t
           R == {a[i] : i \in DOMAIN a}
<1>1. s \in Seq(T) /\ t \in Seq(T)
  BY SeqOfMore DEF IsTable
<1> HIDE DEF S, T, U
<1>2. /\ a \in Seq(T) /\ Len(a) = Len(s) + Len(t) /\ DOMAIN a = 1 .. Len(a)
      /\ Len(s) \in Nat /\ Len(t) \in Nat
      /\ \A i \in 1 .. Len(s) : a[i] = s[i]
      /\ \A i \in 1 .. (Len(s) + Len(t)) : i > Len(s) => a[i] = t[i - Len(s)]
  BY <1>1
<1> HIDE DEF a
<1>3. ASSUME NEW j \in 1 .. Len(t) PROVE a[Len(s) + j] = t[j]
  <2>1. /\ Len(s) + j \in 1 .. (Len(s) + Len(t)) /\ Len(s) + j > Len(s)
        /\ Len(s) + j - Len(s) = j
    BY <1>2
  <2> QED
    BY <1>2, <2>1
<1>4. \A i \in 1 .. Len(a) : a[i] \in R
  BY <1>2
<1> HIDE DEF R
<1>5. a = [i \in 1 .. Len(a) |-> a[i]]
  BY <1>2
<1>6. a \in Seq(R)
  BY <1>2, <1>4, <1>5
<1> QED
  BY <1>2, <1>3, <1>6 DEF IsTable, R, a

(* A run's history grows by evs.                                           *)
Grows(ex, new, r, evs) ==
    \E v : new = [ex EXCEPT ![r] = v] /\ v.hist = ex[r].hist \o evs

(* What that adds to the records: what evs, placed after n events, record. *)
After(evs, n, i, c, k) ==
    \E j \in 1 .. Len(evs) : i = n + j /\ evs[j].by = <<c, k>>

RecGrown(ex, new, r, evs) ==
    \A x, i, c, k : Rec(new, x, i, c, k)
       <=> Rec(ex, x, i, c, k) \/ (x = r /\ After(evs, Len(ex[r].hist), i, c, k))

HistTables(ex) == \A x \in DOMAIN ex : IsTable(ex[x].hist)

LEMMA RecUpdated ==
    ASSUME IsTable(execs), HistInv, NEW r \in DOMAIN execs, NEW evs, IsTable(evs),
           NEW ex, Grows(execs, ex, r, evs)
    PROVE  HistTables(ex) /\ RecGrown(execs, ex, r, evs) /\ IsTable(ex) /\ Len(ex) = Len(execs)
<1>0. PICK v : ex = [execs EXCEPT ![r] = v] /\ v.hist = execs[r].hist \o evs
  BY DEF Grows
<1>1. /\ IsTable(ex) /\ Len(ex) = Len(execs) /\ ex[r] = v /\ DOMAIN ex = DOMAIN execs
      /\ \A x \in DOMAIN execs : x # r => ex[x] = execs[x]
  <2> DEFINE a == [execs EXCEPT ![r] = v]
  <2>1. /\ IsTable(a) /\ Len(a) = Len(execs) /\ a[r] = v
        /\ \A x \in DOMAIN execs : x # r => a[x] = execs[x]
    BY TableUpdate
  <2>2. ex = a
    BY <1>0
  <2> HIDE DEF a
  <2> QED
    BY <2>1, <2>2, TableIs
<1> DEFINE h == execs[r].hist
           h2 == v.hist
<1>9. IsTable(h) /\ h2 = h \o evs
  BY <1>0 DEF HistInv
<1> HIDE DEF h, h2
<1>2. /\ IsTable(h2) /\ Len(h2) = Len(h) + Len(evs) /\ Len(h) \in Nat /\ Len(evs) \in Nat
      /\ DOMAIN h = 1 .. Len(h) /\ DOMAIN h2 = 1 .. (Len(h) + Len(evs))
      /\ \A i \in 1 .. Len(h) : h2[i] = h[i]
      /\ \A j \in 1 .. Len(evs) : h2[Len(h) + j] = evs[j]
  <2>1. /\ IsTable(h2) /\ Len(h2) = Len(h) + Len(evs)
        /\ \A i \in 1 .. Len(h) : h2[i] = h[i]
        /\ \A j \in 1 .. Len(evs) : h2[Len(h) + j] = evs[j]
    BY <1>9, ConcatIs
  <2> QED
    BY <1>9, <2>1, TableIs
<1>3. ASSUME NEW x \in DOMAIN ex PROVE IsTable(ex[x].hist)
  <2>1. CASE x = r
    <3>1. ex[x].hist = h2
      BY <1>1, <2>1 DEF h2
    <3> QED
      BY <1>2, <3>1
  <2>2. CASE x # r
    BY <1>1, <2>2 DEF HistInv
  <2> QED
    BY <2>1, <2>2
<1>4. \A i \in DOMAIN h2 : i \in DOMAIN h \/ \E j \in 1 .. Len(evs) : i = Len(h) + j
  <2> SUFFICES ASSUME NEW i \in DOMAIN h2, i \notin DOMAIN h
               PROVE  \E j \in 1 .. Len(evs) : i = Len(h) + j
    OBVIOUS
  <2>1. i - Len(h) \in 1 .. Len(evs) /\ i = Len(h) + (i - Len(h))
    BY <1>2
  <2> QED
    BY <2>1
<1>5. \A j \in 1 .. Len(evs) : Len(h) + j \in DOMAIN h2
  BY <1>2
<1>6. ASSUME NEW i, NEW c, NEW k
      PROVE  (i \in DOMAIN h2 /\ h2[i].by = <<c, k>>)
             <=> \/ i \in DOMAIN h /\ h[i].by = <<c, k>>
                 \/ \E j \in 1 .. Len(evs) : i = Len(h) + j /\ evs[j].by = <<c, k>>
  <2>1. ASSUME i \in DOMAIN h PROVE i \in DOMAIN h2 /\ h2[i] = h[i]
    BY <1>2, <2>1
  <2>2. ASSUME NEW j \in 1 .. Len(evs), i = Len(h) + j
        PROVE  i \in DOMAIN h2 /\ i \notin DOMAIN h /\ h2[i] = evs[j]
    BY <1>2, <1>5, <2>2
  <2> QED
    BY <1>4, <2>1, <2>2
<1>7. ASSUME NEW x, NEW i, NEW c, NEW k
      PROVE  Rec(ex, x, i, c, k)
                <=> Rec(execs, x, i, c, k) \/ (x = r /\ After(evs, Len(h), i, c, k))
  <2>1. CASE x = r
    <3>1. x \in DOMAIN ex /\ x \in DOMAIN execs /\ ex[x].hist = h2 /\ execs[x].hist = h
      BY <1>1, <2>1 DEF h, h2
    <3>2. Rec(ex, x, i, c, k) <=> i \in DOMAIN h2 /\ h2[i].by = <<c, k>>
      BY <3>1 DEF Rec
    <3>3. Rec(execs, x, i, c, k) <=> i \in DOMAIN h /\ h[i].by = <<c, k>>
      BY <3>1 DEF Rec
    <3>4. (i \in DOMAIN h2 /\ h2[i].by = <<c, k>>)
          <=> (i \in DOMAIN h /\ h[i].by = <<c, k>>) \/ After(evs, Len(h), i, c, k)
      BY <1>6 DEF After
    <3> QED
      BY <2>1, <3>2, <3>3, <3>4
  <2>2. CASE x # r
    BY <1>1, <2>2 DEF Rec
  <2> QED
    BY <2>1, <2>2
<1> QED
  BY <1>1, <1>3, <1>7 DEF h, HistTables, RecGrown

(* A new run, and what its events record.                                  *)
Within(evs, i, c, k) == i \in DOMAIN evs /\ evs[i].by = <<c, k>>

RecNew(ex, new, row) ==
    \A x, i, c, k : Rec(new, x, i, c, k)
       <=> Rec(ex, x, i, c, k) \/ (x = Len(ex) + 1 /\ Within(row.hist, i, c, k))

LEMMA RecAppended ==
    ASSUME NEW rows, IsTable(rows), NEW row, NEW new, new = Append(rows, row)
    PROVE  RecNew(rows, new, row)
<1> DEFINE a == Append(rows, row)
<1>1. /\ DOMAIN a = 1 .. (Len(rows) + 1) /\ Len(rows) \in Nat /\ DOMAIN rows = 1 .. Len(rows)
      /\ \A i \in 1 .. Len(rows) : a[i] = rows[i]
      /\ a[Len(rows) + 1] = row
  BY TableAppend, TableIs
<1> HIDE DEF a
<1>2. \A x : x \in DOMAIN a <=> x \in DOMAIN rows \/ x = Len(rows) + 1
  BY <1>1
<1>3. Len(rows) + 1 \notin DOMAIN rows
  BY <1>1
<1>4. ASSUME NEW x, NEW i, NEW c, NEW k
      PROVE  Rec(a, x, i, c, k)
             <=> Rec(rows, x, i, c, k) \/ (x = Len(rows) + 1 /\ Within(row.hist, i, c, k))
  BY <1>1, <1>2, <1>3 DEF Rec, Within
<1>5. new = a
  BY DEF a
<1> QED
  BY <1>4, <1>5 DEF RecNew

(* Events that record nothing, and one that does at their head.            *)
LEMMA EventIs ==
    /\ \A type, by : Event(type, by).by = by
    /\ \A c, k : <<c, k>> # Nobody
<1>1. \A c, k : Len(<<c, k>>) = 2
  OBVIOUS
<1> QED
  BY <1>1 DEF Event, Nobody

LEMMA TupleTables ==
    ASSUME NEW e, NEW f
    PROVE  /\ IsTable(<<e>>) /\ Len(<<e>>) = 1 /\ <<e>>[1] = e
           /\ IsTable(<<e, f>>) /\ Len(<<e, f>>) = 2
           /\ <<e, f>>[1] = e /\ <<e, f>>[2] = f /\ DOMAIN <<e, f>> = 1 .. 2
<1>1. <<e>> \in Seq({e}) /\ {<<e>>[i] : i \in DOMAIN <<e>>} = {e}
  OBVIOUS
<1>2. <<e, f>> \in Seq({e, f}) /\ {<<e, f>>[i] : i \in DOMAIN <<e, f>>} = {e, f}
  OBVIOUS
<1> QED
  BY <1>1, <1>2 DEF IsTable

(* Events that record nothing, and events of which the first records send  *)
(* k of c.                                                                 *)
Mute(evs) == IsTable(evs) /\ \A j \in 1 .. Len(evs) : \A d, n : evs[j].by # <<d, n>>

Tells(evs, c, k) ==
    /\ IsTable(evs) /\ 1 \in 1 .. Len(evs)
    /\ \A j \in 1 .. Len(evs) : \A d, n : evs[j].by = <<d, n>> <=> j = 1 /\ d = c /\ n = k

LEMMA EventLists ==
    ASSUME NEW type, NEW other
    PROVE  /\ Mute(<<Event(type, Nobody)>>)
           /\ Mute(<<Event(type, Nobody), Event(other, Nobody)>>)
           /\ \A c, k : /\ Tells(<<Event(type, <<c, k>>)>>, c, k)
                        /\ Tells(<<Event(type, <<c, k>>), Event(other, Nobody)>>, c, k)
<1>0. /\ \A d, n : Nobody # <<d, n>>
      /\ \A c, k, d, n : <<c, k>> = <<d, n>> <=> d = c /\ n = k
  BY EventIs
<1>1. ASSUME NEW e, e.by = Nobody PROVE Mute(<<e>>)
  <2>1. PICK g : g = <<e>>
    OBVIOUS
  <2>2. IsTable(g) /\ Len(g) = 1 /\ g[1] = e
    BY <2>1, TupleTables
  <2>3. \A j \in 1 .. Len(g) : j = 1
    BY <2>2
  <2> QED
    BY <1>0, <1>1, <2>1, <2>2, <2>3 DEF Mute
<1>2. ASSUME NEW e, e.by = Nobody, NEW f, f.by = Nobody PROVE Mute(<<e, f>>)
  <2>1. PICK g : g = <<e, f>>
    OBVIOUS
  <2>2. IsTable(g) /\ Len(g) = 2 /\ g[1] = e /\ g[2] = f
    BY <2>1, TupleTables
  <2>3. \A j \in 1 .. Len(g) : j = 1 \/ j = 2
    BY <2>2
  <2> QED
    BY <1>0, <1>2, <2>1, <2>2, <2>3 DEF Mute
<1>3. ASSUME NEW e, NEW c, NEW k, e.by = <<c, k>> PROVE Tells(<<e>>, c, k)
  <2>1. PICK g : g = <<e>>
    OBVIOUS
  <2>2. IsTable(g) /\ Len(g) = 1 /\ g[1] = e
    BY <2>1, TupleTables
  <2>3. \A j \in 1 .. Len(g) : j = 1
    BY <2>2
  <2> QED
    BY <1>0, <1>3, <2>1, <2>2, <2>3 DEF Tells
<1>4. ASSUME NEW e, NEW f, NEW c, NEW k, e.by = <<c, k>>, f.by = Nobody
      PROVE  Tells(<<e, f>>, c, k)
  <2>1. \A d, n : <<c, k>> = <<d, n>> <=> d = c /\ n = k
    OBVIOUS
  <2>2. PICK g : g = <<e, f>>
    OBVIOUS
  <2>3. IsTable(g) /\ Len(g) = 2 /\ g[1] = e /\ g[2] = f
    BY <2>2, TupleTables
  <2>4. \A j \in 1 .. Len(g) : j = 1 \/ j = 2
    BY <2>3
  <2>5. \A d, n : f.by # <<d, n>>
    BY <1>4, EventIs
  <2> QED
    BY <1>4, <2>1, <2>2, <2>3, <2>4, <2>5 DEF Tells
<1> QED
  BY <1>1, <1>2, <1>3, <1>4, EventIs

LEMMA GrowsMute ==
    ASSUME IsTable(execs), HistInv, NEW r \in DOMAIN execs, NEW evs, Mute(evs),
           NEW ex, Grows(execs, ex, r, evs)
    PROVE  HistTables(ex) /\ Silent(execs, ex) /\ IsTable(ex) /\ Len(ex) = Len(execs)
<1>1. IsTable(evs)
  BY DEF Mute
<1>2. HistTables(ex) /\ RecGrown(execs, ex, r, evs) /\ IsTable(ex) /\ Len(ex) = Len(execs)
  BY <1>1, RecUpdated
<1>3. ASSUME NEW x, NEW i, NEW c, NEW k
      PROVE  Rec(ex, x, i, c, k) <=> Rec(execs, x, i, c, k)
  <2>1. ~After(evs, Len(execs[r].hist), i, c, k)
    BY DEF After, Mute
  <2> QED
    BY <1>2, <2>1 DEF RecGrown
<1> QED
  BY <1>2, <1>3 DEF Silent

LEMMA GrowsTells ==
    ASSUME IsTable(execs), HistInv, NEW r \in DOMAIN execs, NEW evs, NEW c, NEW k,
           Tells(evs, c, k), NEW ex, Grows(execs, ex, r, evs)
    PROVE  HistTables(ex) /\ AddsOne(execs, ex, c, k)
<1>1. IsTable(evs)
  BY DEF Tells
<1>2. HistTables(ex) /\ RecGrown(execs, ex, r, evs)
  BY <1>1, RecUpdated
<1>3. PICK n0 : n0 = Len(execs[r].hist)
  OBVIOUS
<1>4. ASSUME NEW i, NEW d, NEW n
      PROVE  After(evs, n0, i, d, n) <=> i = n0 + 1 /\ d = c /\ n = k
  BY DEF After, Tells
<1>5. ASSUME NEW x, NEW i, NEW d, NEW n
      PROVE  Rec(ex, x, i, d, n)
             <=> Rec(execs, x, i, d, n) \/ (x = r /\ i = n0 + 1 /\ d = c /\ n = k)
  <2>1. Rec(ex, x, i, d, n) <=> Rec(execs, x, i, d, n) \/ (x = r /\ After(evs, n0, i, d, n))
    BY <1>2, <1>3 DEF RecGrown
  <2> QED
    BY <1>4, <2>1
<1>6. AddsAt(execs, ex, r, n0 + 1, c, k)
  BY <1>5 DEF AddsAt
<1> QED
  BY <1>2, <1>6 DEF AddsOne

(* What Appended and a new status do to a row's history.                   *)
LEMMA AppendedGrows ==
    ASSUME RunsInv, NEW r \in DOMAIN execs, NEW evs, NEW due, NEW ex,
           \/ ex = [execs EXCEPT ![r] = Appended(execs[r], evs, due)]
           \/ \E st : ex = [execs EXCEPT ![r] =
                              [Appended(execs[r], evs, due) EXCEPT !.status = st]]
    PROVE  Grows(execs, ex, r, evs)
<1>1. PICK u : u = Appended(execs[r], evs, due)
  OBVIOUS
<1>2. RunColumns \subseteq DOMAIN execs[r]
  BY DEF RunsInv
<1>3. u.hist = execs[r].hist \o evs /\ RunColumns \subseteq DOMAIN u
  BY <1>1, <1>2 DEF Appended, RunColumns
<1>4. ASSUME NEW st PROVE [u EXCEPT !.status = st].hist = execs[r].hist \o evs
  BY <1>3 DEF RunColumns
<1> QED
  BY <1>1, <1>3, <1>4 DEF Grows

(* What a step does to the records.                                        *)
Quiet == HistInv' /\ Silent(execs, execs')
Tell(c, k) == HistInv' /\ AddsOne(execs, execs', c, k)

LEMMA QuietExtension ==
    ASSUME RunsInv, HistInv, NEW r \in DOMAIN execs, NEW evs, NEW due, Mute(evs),
           \/ execs' = [execs EXCEPT ![r] = Appended(execs[r], evs, due)]
           \/ \E st : execs' = [execs EXCEPT ![r] =
                                  [Appended(execs[r], evs, due) EXCEPT !.status = st]]
    PROVE  Quiet
<1>1. Grows(execs, execs', r, evs)
  BY AppendedGrows
<1>2. IsTable(execs)
  BY DEF RunsInv
<1> QED
  BY <1>1, <1>2, GrowsMute DEF Quiet, HistInv, HistTables

LEMMA TellingExtension ==
    ASSUME RunsInv, HistInv, NEW r \in DOMAIN execs, NEW evs, NEW due, NEW c, NEW k,
           Tells(evs, c, k),
           \/ execs' = [execs EXCEPT ![r] = Appended(execs[r], evs, due)]
           \/ \E st : execs' = [execs EXCEPT ![r] =
                                  [Appended(execs[r], evs, due) EXCEPT !.status = st]]
    PROVE  Tell(c, k)
<1>1. Grows(execs, execs', r, evs)
  BY AppendedGrows
<1>2. IsTable(execs)
  BY DEF RunsInv
<1> QED
  BY <1>1, <1>2, GrowsTells DEF Tell, HistInv, HistTables

LEMMA WakeTells ==
    ASSUME RunsInv, HistInv, NEW m,
           SignalWorkflowExecution(m) \/ RequestCancelWorkflowExecution(m)
           \/ TerminateWorkflowExecution(m)
    PROVE  Tell(m.c, m.k)
<1>1. ASSUME NEW rpc, NEW type, WakeWorkflowExecution(m, rpc, type) PROVE Tell(m.c, m.k)
  <2>1. PICK evs : evs = <<Event(type, <<m.c, m.k>>), Event("TaskScheduled", Nobody)>>
    OBVIOUS
  <2>2. Tells(evs, m.c, m.k)
    BY <2>1, EventLists
  <2>3. /\ TargetRun(m) \in DOMAIN execs
        /\ execs' = [execs EXCEPT ![TargetRun(m)] = Appended(execs[TargetRun(m)], evs, 1)]
    BY <1>1, <2>1 DEF WakeWorkflowExecution, Found
  <2> QED
    BY <2>2, <2>3, TellingExtension
<1>2. ASSUME TerminateWorkflowExecution(m) PROVE Tell(m.c, m.k)
  <2>1. PICK evs : evs = <<Event("Terminated", <<m.c, m.k>>)>>
    OBVIOUS
  <2>2. Tells(evs, m.c, m.k)
    BY <2>1, EventLists
  <2>3. /\ TargetRun(m) \in DOMAIN execs
        /\ execs' = [execs EXCEPT ![TargetRun(m)] =
                       [Appended(execs[TargetRun(m)], evs, 0) EXCEPT !.status = "TERMINATED"]]
    BY <1>2, <2>1 DEF TerminateWorkflowExecution, Found
  <2> QED
    BY <2>2, <2>3, TellingExtension
<1> QED
  BY <1>1, <1>2 DEF SignalWorkflowExecution, RequestCancelWorkflowExecution

(* A new run of the table.                                                 *)
LEMMA NewRunTables ==
    ASSUME NEW rows, IsTable(rows), HistTables(rows), NEW row, IsTable(row.hist)
    PROVE  HistTables(Append(rows, row))
<1> DEFINE a == Append(rows, row)
<1>1. /\ DOMAIN a = 1 .. (Len(rows) + 1) /\ Len(rows) \in Nat /\ DOMAIN rows = 1 .. Len(rows)
      /\ \A i \in 1 .. Len(rows) : a[i] = rows[i]
      /\ a[Len(rows) + 1] = row
  BY TableAppend, TableIs
<1> HIDE DEF a
<1>2. ASSUME NEW x \in DOMAIN a PROVE IsTable(a[x].hist)
  <2>1. CASE x \in DOMAIN rows
    BY <1>1, <2>1 DEF HistTables
  <2>2. CASE x \notin DOMAIN rows
    <3>1. x = Len(rows) + 1
      BY <1>1, <2>2
    <3> QED
      BY <1>1, <3>1
  <2> QED
    BY <2>1, <2>2
<1> QED
  BY <1>2 DEF HistTables, a

LEMMA StartTells ==
    ASSUME RunsInv, HistInv, NEW m, StartWorkflowExecution(m)
    PROVE  Tell(m.c, m.k)
<1>1. PICK t : Create(execs, NewRun(Slot(m), RequestId(m), NoRun, <<m.c, m.k>>, t))
  BY DEF StartWorkflowExecution
<1>2. PICK row : row = NewRun(Slot(m), RequestId(m), NoRun, <<m.c, m.k>>, t)
  OBVIOUS
<1>3. PICK evs : evs = <<Event("Started", <<m.c, m.k>>), Event("TaskScheduled", Nobody)>>
  OBVIOUS
<1>4. execs' = Append(execs, row) /\ row.hist = evs
  BY <1>1, <1>2, <1>3 DEF Create, NewRun
<1>5. Tells(evs, m.c, m.k) /\ IsTable(evs) /\ DOMAIN evs = 1 .. Len(evs)
  <2>1. Tells(evs, m.c, m.k)
    BY <1>3, EventLists
  <2>2. IsTable(evs)
    BY <2>1 DEF Tells
  <2> QED
    BY <2>1, <2>2, TableIs
<1>6. IsTable(execs) /\ HistTables(execs)
  BY DEF RunsInv, HistInv, HistTables
<1>7. HistInv'
  BY <1>4, <1>5, <1>6, NewRunTables DEF HistInv, HistTables
<1>8. RecNew(execs, execs', row)
  BY <1>4, <1>6, RecAppended
<1>9. ASSUME NEW x, NEW i, NEW d, NEW n
      PROVE  Rec(execs', x, i, d, n)
             <=> Rec(execs, x, i, d, n) \/ (x = Len(execs) + 1 /\ i = 1 /\ d = m.c /\ n = m.k)
  <2>1. Rec(execs', x, i, d, n)
        <=> Rec(execs, x, i, d, n) \/ (x = Len(execs) + 1 /\ Within(row.hist, i, d, n))
    BY <1>8, Zenon DEF RecNew
  <2>2. Within(row.hist, i, d, n) <=> Within(evs, i, d, n)
    BY <1>4
  <2>3. Within(evs, i, d, n) <=> (i = 1 /\ d = m.c /\ n = m.k)
    <3>1. 1 \in DOMAIN evs
      BY <1>5 DEF Tells
    <3>2. \A j \in DOMAIN evs : evs[j].by = <<d, n>> <=> j = 1 /\ d = m.c /\ n = m.k
      <4> SUFFICES ASSUME NEW j \in DOMAIN evs
                   PROVE  evs[j].by = <<d, n>> <=> j = 1 /\ d = m.c /\ n = m.k
        OBVIOUS
      <4>1. j \in 1 .. Len(evs)
        BY <1>5
      <4> QED
        BY <1>5, <4>1 DEF Tells
    <3> QED
      BY <3>1, <3>2 DEF Within
  <2> QED
    BY <2>1, <2>2, <2>3
<1>10. AddsAt(execs, execs', Len(execs) + 1, 1, m.c, m.k)
  BY <1>9 DEF AddsAt
<1> QED
  BY <1>7, <1>10 DEF Tell, AddsOne

LEMMA ContinueQuiet ==
    ASSUME RunsInv, HistInv, NEW r \in DOMAIN execs, ContinueWorkflowAsNew(r)
    PROVE  Quiet
<1>1. PICK t : Create(ContinuedRows(r), NewRun(execs[r].slot, ContinuedId(r), r, Nobody, t))
  BY DEF ContinueWorkflowAsNew
<1>2. PICK row : row = NewRun(execs[r].slot, ContinuedId(r), r, Nobody, t)
  OBVIOUS
<1>3. PICK rows : rows = ContinuedRows(r)
  OBVIOUS
<1>4. PICK old : old = <<Event("ContinuedAsNew", Nobody)>>
  OBVIOUS
<1>5. PICK new : new = <<Event("Started", Nobody), Event("TaskScheduled", Nobody)>>
  OBVIOUS
<1>6. Mute(old) /\ Mute(new)
  BY <1>4, <1>5, EventLists
<1>7. rows = [execs EXCEPT ![r] =
                [Appended(execs[r], old, -1) EXCEPT !.status = "CONTINUED_AS_NEW"]]
  BY <1>3, <1>4 DEF ContinuedRows
<1>8. Grows(execs, rows, r, old)
  BY <1>7, AppendedGrows
<1>9. IsTable(execs)
  BY DEF RunsInv
<1>10. HistTables(rows) /\ Silent(execs, rows) /\ IsTable(rows)
  BY <1>6, <1>8, <1>9, GrowsMute
<1>11. execs' = Append(rows, row) /\ row.hist = new
  BY <1>1, <1>2, <1>3, <1>5 DEF Create, NewRun
<1>12. IsTable(new)
  BY <1>6 DEF Mute
<1>13. HistInv'
  BY <1>10, <1>11, <1>12, NewRunTables DEF HistInv, HistTables
<1>14. RecNew(rows, execs', row)
  BY <1>10, <1>11, RecAppended
<1>15. \A i, c, k : ~Within(new, i, c, k)
  BY <1>6, <1>12, TableIs DEF Mute, Within
<1>16. ASSUME NEW x, NEW i, NEW c, NEW k
       PROVE  Rec(execs', x, i, c, k) <=> Rec(execs, x, i, c, k)
  <2>1. Rec(execs', x, i, c, k)
        <=> Rec(rows, x, i, c, k) \/ (x = Len(rows) + 1 /\ Within(new, i, c, k))
    BY <1>11, <1>14 DEF RecNew
  <2>2. Rec(rows, x, i, c, k) <=> Rec(execs, x, i, c, k)
    BY <1>10 DEF Silent
  <2> QED
    BY <1>15, <2>1, <2>2
<1> QED
  BY <1>13, <1>16 DEF Quiet, Silent

LEMMA WorkQuiet ==
    ASSUME RunsInv, HistInv, NEW r \in DOMAIN execs, Work(r)
    PROVE  Quiet
<1>1. ASSUME NEW type, NEW status, CloseBy(r, type, status) PROVE Quiet
  <2>1. PICK evs : evs = <<Event(type, Nobody)>>
    OBVIOUS
  <2>2. Mute(evs)
    BY <2>1, EventLists
  <2>3. execs' = [execs EXCEPT ![r] = [Appended(execs[r], evs, -1) EXCEPT !.status = status]]
    BY <1>1, <2>1 DEF CloseBy
  <2> QED
    BY <2>2, <2>3, QuietExtension
<1>2. ASSUME WorkflowTaskProgress(r) PROVE Quiet
  <2>1. PICK evs : evs = <<Event("TaskCompleted", Nobody)>>
    OBVIOUS
  <2>2. Mute(evs)
    BY <2>1, EventLists
  <2>3. execs' = [execs EXCEPT ![r] = Appended(execs[r], evs, 0)]
    BY <1>2, <2>1 DEF WorkflowTaskProgress
  <2> QED
    BY <2>2, <2>3, QuietExtension
<1> QED
  BY <1>1, <1>2, ContinueQuiet DEF Work, WorkflowCompletes, WorkflowFails

LEMMA SameQuiet ==
    ASSUME HistInv, execs' = execs
    PROVE  Quiet
BY DEF Quiet, HistInv, Silent

-----------------------------------------------------------------------------
(* Sends on the network, in the histories and in the callers' logs.        *)

Wakers == {"Signal", "Cancel", "Terminate"}
Writers == {"Start"} \cup Wakers
WakeCalls == {"signal", "cancel", "terminate"}

Recorded(c, k) == \E x, i : Rec(execs, x, i, c, k)
InFlight(c, k) == \E m \in net : m.c = c /\ m.k = k /\ m.rpc \in Writers

(* What a caller may make of the outcome of its send k.                    *)
Fits(code, c, k) ==
    /\ code = "OK" => Recorded(c, k)
    /\ code \notin {"OK", "Unavailable"} => ~Recorded(c, k) /\ ~InFlight(c, k)

StreamColumns == {"k", "st", "code", "val"}

StreamInv ==
    /\ DOMAIN stream = Client
    /\ \A c \in Client : StreamColumns \subseteq DOMAIN stream[c] /\ stream[c].k \in Nat

(* A send that writes is numbered anew; until its handler has run, nothing *)
(* records it.                                                             *)
NetInv ==
    /\ \A m \in net : m.c \in Client /\ m.k \in Nat /\ m.k <= stream[m.c].k
    /\ \A m, n \in net :
          m.rpc \in Writers /\ n.rpc \in Writers /\ m.c = n.c /\ m.k = n.k => m = n
    /\ \A m \in net : m.rpc \in Writers => ~Recorded(m.c, m.k)

RecordsInv ==
    /\ \A x, i, c, k : Rec(execs, x, i, c, k) => c \in Client /\ k \in Nat /\ k <= stream[c].k
    /\ \A x, i, y, j, c, k : Rec(execs, x, i, c, k) /\ Rec(execs, y, j, c, k) => x = y /\ i = j

Wakes(c) == Busy(c) /\ Doing(c).do \in WakeCalls

(* What a caller in such a call waits for, and has heard.                  *)
CallInv ==
    \A c \in Client : Wakes(c) =>
        /\ stream[c].st = "open" =>
              \A m \in net : m.c = c /\ m.k = stream[c].k => m.rpc \in Wakers
        /\ stream[c].st = "answered" => Fits(stream[c].code, c, stream[c].k)

ScriptInv == \A c \in Client : IsTable(script[c])

JobColumns == {"at", "sends", "stage", "run", "settled", "status", "got", "token", "was",
               "handle"}

JobInv ==
    /\ DOMAIN job = Client /\ DOMAIN log = Client
    /\ \A c \in Client : /\ JobColumns \subseteq DOMAIN job[c] /\ job[c].at \in Nat
                         /\ IsTable(log[c])
                         /\ Busy(c) => job[c].at = Len(log[c]) + 1

LogInv ==
    \A c \in Client : \A i \in DOMAIN log[c] :
        /\ log[c][i].k \in Nat /\ log[c][i].k <= stream[c].k
        /\ script[c][i].do \in WakeCalls => Fits(log[c][i].code, c, log[c][i].k)

SendsInv ==
    /\ HistInv /\ StreamInv /\ NetInv /\ RecordsInv /\ CallInv
    /\ ScriptInv /\ JobInv /\ LogInv

(* The steps, as far as sends are concerned.  A caller sends m; a handler  *)
(* answers m; a call returns.                                              *)
SendsOne(c, m) ==
    /\ c \in Client /\ Busy(c) /\ stream[c].st = "closed" /\ m.c = c
    /\ m.k = stream[c].k + 1 \/ (m.k = stream[c].k /\ m.rpc \notin Writers)
    /\ Wakes(c) => m.rpc \in Wakers
    /\ net' = net \cup {m} /\ DOMAIN stream' = DOMAIN stream
    /\ \A d \in Client \ {c} : stream'[d] = stream[d]
    /\ StreamColumns \subseteq DOMAIN stream'[c]
    /\ stream'[c].k = m.k /\ stream'[c].st = "open"
    /\ UNCHANGED <<execs, script, log>>
    /\ DOMAIN job' = DOMAIN job
    /\ \A d \in Client : JobColumns \subseteq DOMAIN job'[d] /\ job'[d].at = job[d].at

LEMMA BusyIs ==
    ASSUME script' = script, NEW c, job'[c].at = job[c].at
    PROVE  Busy(c)' = Busy(c) /\ Doing(c)' = Doing(c) /\ Wakes(c)' = Wakes(c)
BY DEF Busy, Doing, Wakes

LEMMA SendKeeps ==
    ASSUME SendsInv, NEW c, NEW m, SendsOne(c, m)
    PROVE  SendsInv'
<1>0. c \in Client /\ m.c = c /\ stream[c].k \in Nat /\ execs' = execs
  BY DEF SendsInv, StreamInv, SendsOne
<1>1. \A x, i, d, n : Rec(execs', x, i, d, n) <=> Rec(execs, x, i, d, n)
  BY <1>0
<1>2. \A d, n : Recorded(d, n)' <=> Recorded(d, n)
  BY <1>0 DEF Recorded
<1>3. \A d \in Client : stream'[d].k \in Nat /\ stream[d].k <= stream'[d].k
  BY <1>0 DEF SendsInv, StreamInv, SendsOne
<1>4. HistInv'
  BY <1>0 DEF SendsInv, HistInv
<1>5. StreamInv'
  BY <1>3 DEF SendsInv, StreamInv, SendsOne
<1>6. ASSUME m.rpc \in Writers
      PROVE  /\ \A n \in net : ~(n.c = c /\ n.k = m.k)
             /\ ~Recorded(c, m.k)
  <2>1. m.k = stream[c].k + 1
    BY <1>6 DEF SendsOne
  <2>2. \A n \in net : n.c = c => n.k \in Nat /\ n.k <= stream[c].k
    BY DEF SendsInv, NetInv
  <2>3. \A x, i : Rec(execs, x, i, c, m.k) => m.k \in Nat /\ m.k <= stream[c].k
    BY DEF SendsInv, RecordsInv
  <2> QED
    BY <1>0, <2>1, <2>2, <2>3 DEF Recorded
<1>7. NetInv'
  <2>1. net' = net \cup {m} /\ m.k \in Nat /\ m.k = stream'[c].k
    BY <1>0 DEF SendsOne
  <2>2. \A n \in net' : n.c \in Client /\ n.k \in Nat /\ n.k <= stream'[n.c].k
    BY <1>0, <1>3, <2>1 DEF SendsInv, NetInv, StreamInv
  <2>3. \A a, b \in net' :
           a.rpc \in Writers /\ b.rpc \in Writers /\ a.c = b.c /\ a.k = b.k => a = b
    BY <1>0, <1>6, <2>1 DEF SendsInv, NetInv
  <2>4. \A n \in net' : n.rpc \in Writers => ~Recorded(n.c, n.k)'
    BY <1>0, <1>2, <1>6, <2>1 DEF SendsInv, NetInv
  <2> QED
    BY <2>2, <2>3, <2>4 DEF NetInv
<1>8. RecordsInv'
  <2>1. ASSUME NEW x, NEW i, NEW d, NEW n, Rec(execs', x, i, d, n)
        PROVE  d \in Client /\ n \in Nat /\ n <= stream'[d].k
    <3>1. d \in Client /\ n \in Nat /\ n <= stream[d].k /\ stream[d].k \in Nat
      BY <1>1, <2>1 DEF SendsInv, RecordsInv, StreamInv
    <3> QED
      BY <1>3, <3>1
  <2>2. ASSUME NEW x, NEW i, NEW y, NEW j, NEW d, NEW n,
               Rec(execs', x, i, d, n), Rec(execs', y, j, d, n)
        PROVE  x = y /\ i = j
    BY <1>1, <2>2 DEF SendsInv, RecordsInv
  <2> QED
    BY <2>1, <2>2 DEF RecordsInv
<1>9. ASSUME NEW d, NEW n, NEW code, d # c \/ n # m.k \/ m.rpc \notin Writers, Fits(code, d, n)
      PROVE  Fits(code, d, n)'
  <2>1. InFlight(d, n)' => InFlight(d, n)
    BY <1>0, <1>9 DEF InFlight, SendsOne
  <2> QED
    BY <1>2, <1>9, <2>1 DEF Fits
<1>10. CallInv'
  <2> SUFFICES ASSUME NEW d \in Client, Wakes(d)'
               PROVE  /\ stream'[d].st = "open" =>
                            \A n \in net' : n.c = d /\ n.k = stream'[d].k => n.rpc \in Wakers
                      /\ stream'[d].st = "answered" => Fits(stream[d].code, d, stream[d].k)'
    BY DEF CallInv
  <2>1. Wakes(d)
    BY BusyIs DEF SendsOne
  <2>2. CASE d = c
    <3>1. m.rpc \in Wakers /\ m.rpc \in Writers
      BY <2>1, <2>2 DEF SendsOne, Writers
    <3> QED
      BY <1>0, <1>6, <2>2, <3>1 DEF SendsOne
  <2>3. CASE d # c
    <3>1. stream'[d] = stream[d]
      BY <2>3 DEF SendsOne
    <3>2. stream[d].st = "answered" => Fits(stream[d].code, d, stream[d].k)'
      BY <1>9, <2>1, <2>3, <3>1 DEF SendsInv, CallInv
    <3>3. stream[d].st = "open" =>
             \A n \in net' : n.c = d /\ n.k = stream[d].k => n.rpc \in Wakers
      BY <1>0, <2>1, <2>3 DEF SendsInv, CallInv, SendsOne
    <3> QED
      BY <3>1, <3>2, <3>3
  <2> QED
    BY <2>2, <2>3
<1>11. ScriptInv' /\ JobInv'
  <2>1. ScriptInv'
    BY DEF SendsInv, ScriptInv, SendsOne
  <2>2. \A d \in Client : Busy(d)' = Busy(d)
    BY BusyIs DEF SendsOne
  <2>3. JobInv'
    BY <2>2 DEF SendsInv, JobInv, SendsOne
  <2> QED
    BY <2>1, <2>3
<1>12. LogInv'
  <2> SUFFICES ASSUME NEW d \in Client, NEW i \in DOMAIN log[d]
               PROVE  /\ log[d][i].k \in Nat /\ log[d][i].k <= stream'[d].k
                      /\ script[d][i].do \in WakeCalls => Fits(log[d][i].code, d, log[d][i].k)'
    BY DEF SendsOne, LogInv
  <2>1. /\ log[d][i].k \in Nat /\ log[d][i].k <= stream[d].k
        /\ script[d][i].do \in WakeCalls => Fits(log[d][i].code, d, log[d][i].k)
    BY DEF SendsInv, LogInv
  <2>2. d # c \/ log[d][i].k # m.k \/ m.rpc \notin Writers
    BY <1>0, <2>1 DEF SendsOne
  <2>3. PICK n, code : n = log[d][i].k /\ code = log[d][i].code
    OBVIOUS
  <2>4. Fits(code, d, n) => Fits(code, d, n)'
    BY <1>9, <2>2, <2>3
  <2>5. log[d][i].k <= stream'[d].k
    BY <1>3, <2>1 DEF SendsInv, StreamInv
  <2> QED
    BY <2>1, <2>3, <2>4, <2>5 DEF SendsOne
<1> QED
  BY <1>4, <1>5, <1>7, <1>8, <1>10, <1>11, <1>12 DEF SendsInv

(* The other steps add no request and number nothing anew.                 *)
StreamStep ==
    /\ DOMAIN stream' = DOMAIN stream
    /\ \A d \in Client : StreamColumns \subseteq DOMAIN stream'[d] /\ stream'[d].k = stream[d].k

FitsKept == \A code, d, n : Fits(code, d, n) => Fits(code, d, n)'

LogKept == LogInv /\ UNCHANGED <<script, log>> /\ StreamStep /\ FitsKept => LogInv'

LEMMA LogIsKept == LogKept
<1> SUFFICES ASSUME LogInv, UNCHANGED <<script, log>>, StreamStep, FitsKept,
                    NEW d \in Client, NEW i \in DOMAIN log[d]
             PROVE  /\ log[d][i].k \in Nat /\ log[d][i].k <= stream'[d].k
                    /\ script[d][i].do \in WakeCalls => Fits(log[d][i].code, d, log[d][i].k)'
  BY DEF LogKept, LogInv
<1>1. PICK n, code : n = log[d][i].k /\ code = log[d][i].code
  OBVIOUS
<1>2. Fits(code, d, n) => Fits(code, d, n)'
  BY DEF FitsKept
<1>3. n \in Nat /\ n <= stream[d].k /\ (script[d][i].do \in WakeCalls => Fits(code, d, n))
  BY <1>1 DEF LogInv
<1> QED
  BY <1>1, <1>2, <1>3 DEF StreamStep

LEMMA QuietKeeps ==
    ASSUME SendsInv, Quiet, net' \subseteq net, StreamStep
    PROVE  HistInv' /\ StreamInv' /\ NetInv' /\ RecordsInv' /\ FitsKept
<1>1. \A x, i, d, n : Rec(execs', x, i, d, n) <=> Rec(execs, x, i, d, n)
  BY DEF Quiet, Silent
<1>2. \A d, n : Recorded(d, n)' <=> Recorded(d, n)
  BY <1>1 DEF Recorded
<1>3. StreamInv'
  BY DEF SendsInv, StreamInv, StreamStep
<1>4. NetInv'
  BY <1>2 DEF SendsInv, NetInv, StreamStep
<1>5. RecordsInv'
  <2>1. ASSUME NEW x, NEW i, NEW d, NEW n, Rec(execs', x, i, d, n)
        PROVE  d \in Client /\ n \in Nat /\ n <= stream'[d].k
    BY <1>1, <2>1 DEF SendsInv, RecordsInv, StreamStep
  <2>2. ASSUME NEW x, NEW i, NEW y, NEW j, NEW d, NEW n,
               Rec(execs', x, i, d, n), Rec(execs', y, j, d, n)
        PROVE  x = y /\ i = j
    BY <1>1, <2>2 DEF SendsInv, RecordsInv
  <2> QED
    BY <2>1, <2>2 DEF RecordsInv
<1>6. FitsKept
  <2>1. \A d, n : InFlight(d, n)' => InFlight(d, n)
    BY DEF InFlight
  <2> QED
    BY <1>2, <2>1 DEF FitsKept, Fits
<1> QED
  BY <1>3, <1>4, <1>5, <1>6 DEF Quiet

LEMMA SameJobs ==
    ASSUME SendsInv, UNCHANGED <<script, log, job>>
    PROVE  ScriptInv' /\ JobInv' /\ \A c \in Client : Wakes(c)' = Wakes(c)
<1>1. \A c : Busy(c)' = Busy(c) /\ Wakes(c)' = Wakes(c)
  BY BusyIs
<1> QED
  BY <1>1 DEF SendsInv, ScriptInv, JobInv

(* A handler's answer reaches its caller or nobody.                        *)
Hears(m, code) ==
    /\ StreamStep
    /\ \A d \in Client :
          \/ stream'[d] = stream[d]
          \/ /\ d = m.c /\ stream[d].k = m.k /\ stream[d].st = "open"
             /\ stream'[d].st = "answered" /\ stream'[d].code = code

LEMMA AnswerIs ==
    ASSUME StreamInv, NEW m, NEW code, NEW val, Answer(m, code, val)
    PROVE  net' = net \ {m} /\ Hears(m, code)
BY DEF Answer, Hears, StreamStep, StreamInv, StreamColumns

ServedQuietly(m, code) ==
    /\ m \in net /\ net' = net \ {m} /\ Hears(m, code) /\ UNCHANGED <<script, log, job>>
    /\ Quiet /\ (m.rpc \in Wakers => code \notin {"OK", "Unavailable"})

ServedTelling(m) ==
    /\ m \in net /\ net' = net \ {m} /\ Hears(m, "OK") /\ UNCHANGED <<script, log, job>>
    /\ Tell(m.c, m.k) /\ m.rpc \in Writers

LEMMA QuietServiceKeeps ==
    ASSUME SendsInv, NEW m, NEW code, ServedQuietly(m, code)
    PROVE  SendsInv'
<1>1. HistInv' /\ StreamInv' /\ NetInv' /\ RecordsInv' /\ FitsKept
  BY QuietKeeps DEF ServedQuietly, Hears
<1>2. ScriptInv' /\ JobInv' /\ \A c \in Client : Wakes(c)' = Wakes(c)
  BY SameJobs DEF ServedQuietly
<1>3. LogInv'
  BY <1>1, LogIsKept DEF LogKept, SendsInv, ServedQuietly, Hears
<1>4. CallInv'
  <2> SUFFICES ASSUME NEW d \in Client, Wakes(d)
               PROVE  /\ stream'[d].st = "open" =>
                            \A n \in net' : n.c = d /\ n.k = stream'[d].k => n.rpc \in Wakers
                      /\ stream'[d].st = "answered" => Fits(stream[d].code, d, stream[d].k)'
    BY <1>2 DEF CallInv
  <2>1. CASE stream'[d] = stream[d]
    <3>1. PICK n, cd : n = stream[d].k /\ cd = stream[d].code
      OBVIOUS
    <3>2. stream[d].st = "answered" => Fits(cd, d, n)'
      BY <1>1, <3>1 DEF FitsKept, SendsInv, CallInv
    <3> QED
      BY <2>1, <3>1, <3>2 DEF SendsInv, CallInv, ServedQuietly
  <2>2. CASE /\ d = m.c /\ stream[d].k = m.k /\ stream[d].st = "open"
             /\ stream'[d].st = "answered" /\ stream'[d].code = code
    <3>1. m.rpc \in Wakers /\ m \in net
      BY <2>2 DEF SendsInv, CallInv, ServedQuietly
    <3>2. code \notin {"OK", "Unavailable"}
      BY <3>1 DEF ServedQuietly
    <3>3. ~Recorded(m.c, m.k) /\ ~InFlight(m.c, m.k)'
      BY <3>1 DEF SendsInv, NetInv, Writers, InFlight, ServedQuietly
    <3>4. \A x, i, c, n : Rec(execs', x, i, c, n) <=> Rec(execs, x, i, c, n)
      BY DEF ServedQuietly, Quiet, Silent
    <3>5. ~Recorded(m.c, m.k)'
      <4> SUFFICES ASSUME NEW x, NEW i, Rec(execs', x, i, m.c, m.k) PROVE FALSE
        BY <1>1, <3>1 DEF NetInv, Recorded
      <4> QED
        BY <3>3, <3>4 DEF Recorded
    <3>6. Fits(code, m.c, m.k)'
      BY <3>2, <3>3, <3>5 DEF Fits
    <3>7. stream'[d].k = m.k
      BY <2>2 DEF ServedQuietly, Hears, StreamStep
    <3> QED
      BY <2>2, <3>6, <3>7
  <2> QED
    BY <2>1, <2>2 DEF ServedQuietly, Hears
<1> QED
  BY <1>1, <1>2, <1>3, <1>4 DEF SendsInv

LEMMA TellingServiceKeeps ==
    ASSUME SendsInv, NEW m, ServedTelling(m)
    PROVE  SendsInv'
<1>1. /\ m \in net /\ net' = net \ {m} /\ m.rpc \in Writers /\ HistInv'
      /\ StreamStep /\ UNCHANGED <<script, log, job>>
      /\ m.c \in Client /\ m.k \in Nat /\ m.k <= stream[m.c].k /\ ~Recorded(m.c, m.k)
  BY DEF ServedTelling, Tell, Hears, SendsInv, NetInv
<1>2. PICK y, j : AddsAt(execs, execs', y, j, m.c, m.k)
  BY DEF ServedTelling, Tell, AddsOne
<1>3. \A x, i, d, n : Rec(execs', x, i, d, n)
         <=> Rec(execs, x, i, d, n) \/ (x = y /\ i = j /\ d = m.c /\ n = m.k)
  BY <1>2 DEF AddsAt
<1>4. \A d, n : Recorded(d, n)' <=> Recorded(d, n) \/ (d = m.c /\ n = m.k)
  BY <1>3 DEF Recorded
<1>5. StreamInv'
  BY <1>1 DEF SendsInv, StreamInv, StreamStep
<1>6. NetInv'
  <2>1. ASSUME NEW n \in net', n.rpc \in Writers PROVE ~Recorded(n.c, n.k)'
    <3>1. n.c # m.c \/ n.k # m.k
      BY <1>1, <2>1 DEF SendsInv, NetInv
    <3>2. ~Recorded(n.c, n.k)
      BY <1>1, <2>1 DEF SendsInv, NetInv
    <3>3. PICK d, k : d = n.c /\ k = n.k
      OBVIOUS
    <3>4. ~Recorded(d, k)'
      BY <1>4, <3>1, <3>2, <3>3
    <3> QED
      BY <3>3, <3>4
  <2> QED
    BY <1>1, <2>1 DEF SendsInv, NetInv, StreamStep
<1>7. RecordsInv'
  <2>1. ASSUME NEW x, NEW i, NEW d, NEW n, Rec(execs', x, i, d, n)
        PROVE  d \in Client /\ n \in Nat /\ n <= stream'[d].k
    BY <1>1, <1>3, <2>1 DEF SendsInv, RecordsInv, StreamStep
  <2>2. ASSUME NEW x, NEW i, NEW z, NEW l, NEW d, NEW n,
               Rec(execs', x, i, d, n), Rec(execs', z, l, d, n)
        PROVE  x = z /\ i = l
    <3>1. CASE d = m.c /\ n = m.k
      BY <1>1, <1>3, <2>2, <3>1 DEF Recorded
    <3>2. CASE ~(d = m.c /\ n = m.k)
      BY <1>3, <2>2, <3>2 DEF SendsInv, RecordsInv
    <3> QED
      BY <3>1, <3>2
  <2> QED
    BY <2>1, <2>2 DEF RecordsInv
<1>8. FitsKept
  <2> SUFFICES ASSUME NEW code, NEW d, NEW n, Fits(code, d, n) PROVE Fits(code, d, n)'
    BY DEF FitsKept
  <2>1. InFlight(d, n)' => InFlight(d, n)
    BY <1>1 DEF InFlight
  <2>2. InFlight(m.c, m.k)
    BY <1>1 DEF InFlight
  <2>3. CASE d = m.c /\ n = m.k
    BY <1>4, <2>2, <2>3 DEF Fits
  <2>4. CASE ~(d = m.c /\ n = m.k)
    BY <1>4, <2>1, <2>4 DEF Fits
  <2> QED
    BY <2>3, <2>4
<1>9. ScriptInv' /\ JobInv' /\ \A c \in Client : Wakes(c)' = Wakes(c)
  BY <1>1, SameJobs
<1>10. LogInv'
  BY <1>1, <1>8, LogIsKept DEF LogKept, SendsInv
<1>11. CallInv'
  <2> SUFFICES ASSUME NEW d \in Client, Wakes(d)
               PROVE  /\ stream'[d].st = "open" =>
                            \A n \in net' : n.c = d /\ n.k = stream'[d].k => n.rpc \in Wakers
                      /\ stream'[d].st = "answered" => Fits(stream[d].code, d, stream[d].k)'
    BY <1>9 DEF CallInv
  <2>1. CASE stream'[d] = stream[d]
    <3>1. PICK n, cd : n = stream[d].k /\ cd = stream[d].code
      OBVIOUS
    <3>2. stream[d].st = "answered" => Fits(cd, d, n)'
      BY <1>8, <3>1 DEF FitsKept, SendsInv, CallInv
    <3> QED
      BY <1>1, <2>1, <3>1, <3>2 DEF SendsInv, CallInv
  <2>2. CASE /\ d = m.c /\ stream[d].k = m.k /\ stream[d].st = "open"
             /\ stream'[d].st = "answered" /\ stream'[d].code = "OK"
    <3>1. Recorded(m.c, m.k)'
      <4>1. PICK e, k : e = m.c /\ k = m.k
        OBVIOUS
      <4>2. Recorded(e, k)'
        BY <1>4, <4>1
      <4> QED
        BY <4>1, <4>2
    <3>2. Fits("OK", m.c, m.k)'
      BY <3>1 DEF Fits
    <3>3. stream'[d].k = m.k
      BY <1>1, <2>2 DEF StreamStep
    <3> QED
      BY <2>2, <3>2, <3>3
  <2> QED
    BY <2>1, <2>2 DEF ServedTelling, Hears
<1> QED
  BY <1>1, <1>5, <1>6, <1>7, <1>9, <1>10, <1>11 DEF SendsInv

(* Every handler is of one of the two kinds.                               *)
LEMMA HandleServes ==
    ASSUME RunsInv, SendsInv, NEW m \in net, Handle(m), UNCHANGED <<script, log, job>>
    PROVE  ServedTelling(m) \/ \E code : ServedQuietly(m, code)
<1>0. HistInv /\ StreamInv
  BY DEF SendsInv
<1>1. ASSUME NEW code, NEW val, Answer(m, code, val), execs' = execs,
             m.rpc \in Wakers => code \notin {"OK", "Unavailable"}
      PROVE  ServedQuietly(m, code)
  <2>1. Quiet
    BY <1>0, <1>1, SameQuiet
  <2> QED
    BY <1>0, <1>1, <2>1, AnswerIs DEF ServedQuietly
<1>2. ASSUME NEW val, Answer(m, "OK", val), Tell(m.c, m.k), m.rpc \in Writers
      PROVE  ServedTelling(m)
  BY <1>0, <1>2, AnswerIs DEF ServedTelling
<1>3. CASE Refuse(m)
  <2>1. PICK code \in {"Unauthenticated", "PermissionDenied", "InvalidArgument", "NotFound"} :
           Answer(m, code, NoValue)
    BY <1>3 DEF Refuse
  <2>2. code \notin {"OK", "Unavailable"} /\ execs' = execs
    BY <1>3 DEF Refuse, server
  <2> QED
    BY <1>1, <2>1, <2>2
<1>4. CASE Missing(m) \/ ConflictsOut(m)
  <2>1. PICK code \in {"Internal", "Aborted"} : Answer(m, code, NoValue)
    BY <1>4 DEF Missing, ConflictsOut
  <2>2. code \notin {"OK", "Unavailable"} /\ execs' = execs
    BY <1>4 DEF Missing, ConflictsOut, server
  <2> QED
    BY <1>1, <2>1, <2>2
<1>5. CASE StartReplayed(m) \/ StartRefused(m) \/ CreateNamespace(m) \/ ListNamespaces(m)
           \/ DescribeWorkflowExecution(m) \/ GetWorkflowExecutionHistory(m)
           \/ ListWorkflowExecutions(m)
  <2>1. m.rpc \notin Wakers /\ execs' = execs
    BY <1>5 DEF StartReplayed, StartRefused, CreateNamespace, ListNamespaces,
       DescribeWorkflowExecution, GetWorkflowExecutionHistory, ListWorkflowExecutions,
       server, Wakers
  <2>2. \E code, val : Answer(m, code, val)
    BY <1>5 DEF StartReplayed, StartRefused, CreateNamespace, ListNamespaces,
       DescribeWorkflowExecution, GetWorkflowExecutionHistory, ListWorkflowExecutions
  <2> QED
    BY <1>1, <2>1, <2>2
<1>6. CASE StartWorkflowExecution(m)
  <2>1. m.rpc \in Writers /\ \E val : Answer(m, "OK", val)
    BY <1>6 DEF StartWorkflowExecution, Writers
  <2> QED
    BY <1>0, <1>2, <1>6, <2>1, StartTells
<1>7. CASE SignalWorkflowExecution(m) \/ RequestCancelWorkflowExecution(m)
           \/ TerminateWorkflowExecution(m)
  <2>1. m.rpc \in Writers /\ \E val : Answer(m, "OK", val)
    BY <1>7 DEF SignalWorkflowExecution, RequestCancelWorkflowExecution,
       WakeWorkflowExecution, TerminateWorkflowExecution, Writers, Wakers
  <2> QED
    BY <1>0, <1>2, <1>7, <2>1, WakeTells
<1> QED
  BY <1>3, <1>4, <1>5, <1>6, <1>7 DEF Handle

LEMMA ServeKeeps ==
    ASSUME RunsInv, SendsInv, NEW m \in net, Serve(m)
    PROVE  SendsInv'
BY HandleServes, QuietServiceKeeps, TellingServiceKeeps DEF Serve

(* Workers and the network's faults write nothing that records a send.     *)
LEMMA OthersKeep ==
    ASSUME SendsInv, Quiet, net' \subseteq net, UNCHANGED <<script, log, job>>, StreamStep,
           \A d \in Client : \/ stream'[d] = stream[d]
                             \/ stream'[d].st = "answered" /\ stream'[d].code = "Unavailable"
    PROVE  SendsInv'
<1>1. HistInv' /\ StreamInv' /\ NetInv' /\ RecordsInv' /\ FitsKept
  BY QuietKeeps
<1>2. ScriptInv' /\ JobInv' /\ \A c \in Client : Wakes(c)' = Wakes(c)
  BY SameJobs
<1>3. LogInv'
  BY <1>1, LogIsKept DEF LogKept, SendsInv
<1>4. CallInv'
  <2> SUFFICES ASSUME NEW d \in Client, Wakes(d)
               PROVE  /\ stream'[d].st = "open" =>
                            \A n \in net' : n.c = d /\ n.k = stream'[d].k => n.rpc \in Wakers
                      /\ stream'[d].st = "answered" => Fits(stream[d].code, d, stream[d].k)'
    BY <1>2 DEF CallInv
  <2>1. CASE stream'[d] = stream[d]
    <3>1. PICK n, cd : n = stream[d].k /\ cd = stream[d].code
      OBVIOUS
    <3>2. stream[d].st = "answered" => Fits(cd, d, n)'
      BY <1>1, <3>1 DEF FitsKept, SendsInv, CallInv
    <3> QED
      BY <2>1, <3>1, <3>2 DEF SendsInv, CallInv
  <2>2. CASE stream'[d].st = "answered" /\ stream'[d].code = "Unavailable"
    BY <2>2 DEF Fits
  <2> QED
    BY <2>1, <2>2
<1> QED
  BY <1>1, <1>2, <1>3, <1>4 DEF SendsInv

LEMMA NetworkFaults ==
    ASSUME SendsInv, \/ \E c \in Client : OutcomeUnknown(c)
                     \/ \E m \in net : RequestLost(m)
    PROVE  /\ StreamStep
           /\ \A d \in Client : \/ stream'[d] = stream[d]
                                \/ stream'[d].st = "answered" /\ stream'[d].code = "Unavailable"
<1>1. ASSUME NEW c \in Client, OutcomeUnknown(c)
      PROVE  /\ StreamStep
             /\ \A d \in Client : \/ stream'[d] = stream[d]
                                  \/ stream'[d].st = "answered" /\ stream'[d].code = "Unavailable"
  <2>1. PICK row : row = [stream[c] EXCEPT !.st = "answered", !.code = "Unavailable",
                                           !.val = NoValue]
    OBVIOUS
  <2>2. stream' = [stream EXCEPT ![c] = row]
    BY <1>1, <2>1 DEF OutcomeUnknown
  <2>3. StreamColumns \subseteq DOMAIN stream[c]
    BY DEF SendsInv, StreamInv
  <2>4. /\ StreamColumns \subseteq DOMAIN row /\ row.k = stream[c].k
        /\ row.st = "answered" /\ row.code = "Unavailable"
    BY <2>1, <2>3 DEF StreamColumns
  <2> QED
    BY <2>2, <2>4 DEF SendsInv, StreamInv, StreamStep
<1>2. ASSUME NEW m \in net, RequestLost(m)
      PROVE  StreamStep /\ stream' = stream
  BY <1>2 DEF SendsInv, StreamInv, StreamStep, RequestLost
<1> QED
  BY <1>1, <1>2

LEMMA NetworkKeeps ==
    ASSUME SendsInv, \/ \E c \in Client : OutcomeUnknown(c)
                     \/ \E m \in net : RequestLost(m)
    PROVE  SendsInv'
<1>1. Quiet /\ net' \subseteq net /\ UNCHANGED <<script, log, job>>
  BY SameQuiet DEF SendsInv, OutcomeUnknown, RequestLost
<1> QED
  BY <1>1, NetworkFaults, OthersKeep

LEMMA WorkerKeeps ==
    ASSUME RunsInv, SendsInv, NEW r \in DOMAIN execs, Worker(r)
    PROVE  SendsInv'
<1>1. Quiet
  BY WorkQuiet DEF Worker, SendsInv
<1>2. UNCHANGED <<net, stream, script, log, job>>
  BY DEF Worker, Work, WorkflowTaskProgress, WorkflowCompletes, WorkflowFails, CloseBy,
     ContinueWorkflowAsNew
<1>3. StreamStep /\ \A d \in Client : stream'[d] = stream[d]
  BY <1>2 DEF StreamStep, SendsInv, StreamInv
<1> QED
  BY <1>1, <1>2, <1>3, OthersKeep

(* A call of a client is one request on the network.                       *)
LEMMA OutgoingIs ==
    ASSUME NEW c, NEW rpc
    PROVE  /\ Outgoing(c, rpc).c = c /\ Outgoing(c, rpc).rpc = rpc
           /\ \/ Outgoing(c, rpc).k = stream[c].k + 1
              \/ Outgoing(c, rpc).k = stream[c].k /\ rpc \notin Writers
           /\ {"c", "k", "rpc"} \subseteq DOMAIN Outgoing(c, rpc)
BY DEF Outgoing, Request, Writers, Wakers

SameSend(m, out) == m.c = out.c /\ m.k = out.k /\ m.rpc = out.rpc

JobStep ==
    /\ DOMAIN job' = DOMAIN job
    /\ \A d \in Client : JobColumns \subseteq DOMAIN job'[d] /\ job'[d].at = job[d].at

LEMMA SendIs ==
    ASSUME SendsInv, NEW c \in Client, NEW rpc, NEW m, SameSend(m, Outgoing(c, rpc)),
           Send(c, m), JobStep, Busy(c), stream[c].st = "closed",
           Doing(c).do \in WakeCalls => rpc \in Wakers
    PROVE  SendsOne(c, m)
<1>1. /\ m.c = c /\ m.rpc = rpc
      /\ m.k = stream[c].k + 1 \/ (m.k = stream[c].k /\ rpc \notin Writers)
  BY OutgoingIs DEF SameSend
<1>2. DOMAIN stream = Client /\ StreamColumns \subseteq DOMAIN stream[c]
  BY DEF SendsInv, StreamInv
<1>3. /\ DOMAIN stream' = DOMAIN stream /\ \A d \in Client \ {c} : stream'[d] = stream[d]
      /\ StreamColumns \subseteq DOMAIN stream'[c]
      /\ stream'[c].k = m.k /\ stream'[c].st = "open"
  BY <1>2 DEF Send, StreamColumns
<1> QED
  BY <1>1, <1>3 DEF SendsOne, Send, JobStep, Wakes

LEMMA JobSteps ==
    ASSUME SendsInv, NEW c \in Client,
           \/ UNCHANGED job
           \/ \E v : job' = [job EXCEPT ![c].sends = v]
           \/ \E v : job' = [job EXCEPT ![c].was = v]
    PROVE  JobStep
BY DEF JobStep, SendsInv, JobInv, JobColumns

LEMMA RequestFields ==
    ASSUME NEW out, {"c", "k", "rpc"} \subseteq DOMAIN out, NEW v1, NEW v2, NEW v3, NEW v4
    PROVE  /\ SameSend(out, out)
           /\ SameSend([out EXCEPT !.wf = v1, !.req = v2, !.big = v3], out)
           /\ SameSend([out EXCEPT !.wf = v1, !.run = v2, !.big = v3], out)
           /\ SameSend([out EXCEPT !.wf = v1, !.run = v2], out)
           /\ SameSend([out EXCEPT !.name = v1], out)
           /\ SameSend([out EXCEPT !.wf = v1, !.run = v2, !.token = v3], out)
           /\ SameSend([out EXCEPT !.filter = v1, !.page = v2, !.token = v3], out)
BY DEF SameSend

LEMMA InvokeSends ==
    ASSUME SendsInv, NEW c \in Client, Invoke(c)
    PROVE  \E m : SendsOne(c, m)
<1>1. JobStep
  <2>1. CASE \/ StartWorkflow(c) \/ SignalWorkflow(c) \/ CancelWorkflow(c)
             \/ TerminateWorkflow(c) \/ CreateNamespaceCall(c) \/ ListNamespacesCall(c)
    <3>1. job' = [job EXCEPT ![c].sends = job[c].sends + 1]
      BY <2>1 DEF StartWorkflow, SignalWorkflow, CancelWorkflow, TerminateWorkflow,
         CreateNamespaceCall, ListNamespacesCall, Sent
    <3> QED
      BY <3>1, JobSteps
  <2>2. CASE DescribeWorkflow(c)
    BY <2>2, JobSteps DEF DescribeWorkflow
  <2>3. CASE GetWorkflowHistory(c)
    <3>1. PICK v : job' = [job EXCEPT ![c].was = v]
      BY <2>3 DEF GetWorkflowHistory
    <3> QED
      BY <3>1, JobSteps
  <2>4. CASE ListWorkflows(c)
    <3>1. PICK v : job' = [job EXCEPT ![c].was = v]
      BY <2>4 DEF ListWorkflows
    <3> QED
      BY <3>1, JobSteps
  <2> QED
    BY <2>1, <2>2, <2>3, <2>4 DEF Invoke
<1>2. Busy(c) /\ stream[c].st = "closed"
  BY DEF Invoke, StartWorkflow, SignalWorkflow, CancelWorkflow, TerminateWorkflow,
     CreateNamespaceCall, ListNamespacesCall, DescribeWorkflow, GetWorkflowHistory,
     ListWorkflows, May
<1>3. ASSUME NEW rpc, NEW m, SameSend(m, Outgoing(c, rpc)), Send(c, m),
             Doing(c).do \in WakeCalls => rpc \in Wakers
      PROVE  \E n : SendsOne(c, n)
  BY <1>1, <1>2, <1>3, SendIs
<1>4. \A rpc : {"c", "k", "rpc"} \subseteq DOMAIN Outgoing(c, rpc)
  BY OutgoingIs
<1>5. CASE StartWorkflow(c)
  <2>1. PICK m : /\ m = [Outgoing(c, "Start") EXCEPT !.wf = Doing(c).wf, !.req = Doing(c).req,
                                                     !.big = Doing(c).big]
                 /\ Send(c, m)
    BY <1>5 DEF StartWorkflow
  <2>2. Doing(c).do \notin WakeCalls
    BY <1>5 DEF StartWorkflow, May, WakeCalls
  <2> QED
    BY <1>3, <1>4, <2>1, <2>2, RequestFields
<1>6. CASE SignalWorkflow(c)
  <2>1. PICK m : /\ m = [Outgoing(c, "Signal") EXCEPT !.wf = Doing(c).wf, !.run = RunOf(c),
                                                      !.big = Doing(c).big]
                 /\ Send(c, m)
    BY <1>6 DEF SignalWorkflow
  <2> QED
    BY <1>3, <1>4, <2>1, RequestFields DEF Wakers
<1>7. CASE CancelWorkflow(c)
  <2>1. PICK m : /\ m = [Outgoing(c, "Cancel") EXCEPT !.wf = Doing(c).wf, !.run = RunOf(c)]
                 /\ Send(c, m)
    BY <1>7 DEF CancelWorkflow
  <2> QED
    BY <1>3, <1>4, <2>1, RequestFields DEF Wakers
<1>8. CASE TerminateWorkflow(c)
  <2>1. PICK m : /\ m = [Outgoing(c, "Terminate") EXCEPT !.wf = Doing(c).wf, !.run = RunOf(c)]
                 /\ Send(c, m)
    BY <1>8 DEF TerminateWorkflow
  <2> QED
    BY <1>3, <1>4, <2>1, RequestFields DEF Wakers
<1>9. CASE CreateNamespaceCall(c)
  <2>1. PICK m : /\ m = [Outgoing(c, "CreateNamespace") EXCEPT !.name = Doing(c).name]
                 /\ Send(c, m)
    BY <1>9 DEF CreateNamespaceCall
  <2>2. Doing(c).do \notin WakeCalls
    BY <1>9 DEF CreateNamespaceCall, May, WakeCalls
  <2> QED
    BY <1>3, <1>4, <2>1, <2>2, RequestFields
<1>10. CASE ListNamespacesCall(c)
  <2>1. Doing(c).do \notin WakeCalls /\ Send(c, Outgoing(c, "ListNamespaces"))
    BY <1>10 DEF ListNamespacesCall, May, WakeCalls
  <2> QED
    BY <1>3, <1>4, <2>1, RequestFields
<1>11. CASE DescribeWorkflow(c)
  <2>1. PICK m, run : /\ m = [Outgoing(c, "Describe") EXCEPT !.wf = Doing(c).wf, !.run = run]
                      /\ Send(c, m)
    BY <1>11 DEF DescribeWorkflow
  <2>2. Doing(c).do \notin WakeCalls
    BY <1>11 DEF DescribeWorkflow, May, WakeCalls
  <2> QED
    BY <1>3, <1>4, <2>1, <2>2, RequestFields
<1>12. CASE GetWorkflowHistory(c)
  <2>1. PICK m : /\ m = [Outgoing(c, "GetHistory") EXCEPT !.wf = Doing(c).wf,
                           !.run = HistoryRun(c), !.token = job[c].token]
                 /\ Send(c, m)
    BY <1>12 DEF GetWorkflowHistory
  <2>2. Doing(c).do \notin WakeCalls
    BY <1>12 DEF GetWorkflowHistory, May, WakeCalls
  <2> QED
    BY <1>3, <1>4, <2>1, <2>2, RequestFields
<1>13. CASE ListWorkflows(c)
  <2>1. PICK m : /\ m = [Outgoing(c, "List") EXCEPT !.filter = Doing(c).filter,
                           !.page = Doing(c).page, !.token = job[c].token]
                 /\ Send(c, m)
    BY <1>13 DEF ListWorkflows
  <2>2. Doing(c).do \notin WakeCalls
    BY <1>13 DEF ListWorkflows, May, WakeCalls
  <2> QED
    BY <1>3, <1>4, <2>1, <2>2, RequestFields
<1> QED
  BY <1>5, <1>6, <1>7, <1>8, <1>9, <1>10, <1>11, <1>12, <1>13 DEF Invoke

LEMMA InvokeKeeps ==
    ASSUME SendsInv, NEW c \in Client, Invoke(c)
    PROVE  SendsInv'
BY InvokeSends, SendKeeps

-----------------------------------------------------------------------------
(* A call returns to its caller.                                           *)

LEMMA NewJobIs ==
    ASSUME NEW n, NEW handle
    PROVE  JobColumns \subseteq DOMAIN NewJob(n, handle) /\ NewJob(n, handle).at = n
BY DEF NewJob, JobColumns

SameCall(j, k) == JobColumns \subseteq DOMAIN k /\ k.at = j.at

LEMMA JobUpdates ==
    ASSUME NEW j, JobColumns \subseteq DOMAIN j, NEW v1, NEW v2, NEW v3
    PROVE  /\ SameCall(j, j)
           /\ SameCall(j, [j EXCEPT !.settled = v1])
           /\ SameCall(j, [j EXCEPT !.settled = v1, !.status = v2])
           /\ SameCall(j, [[j EXCEPT !.settled = v1, !.status = v2] EXCEPT !.stage = v3])
           /\ SameCall(j, [j EXCEPT !.run = v1])
           /\ SameCall(j, [j EXCEPT !.got = v1, !.token = v2])
           /\ SameCall(j, [j EXCEPT !.sends = v1])
BY DEF SameCall, JobColumns

LEMMA ClosedIs ==
    ASSUME SendsInv, NEW c \in Client, Closed(c)
    PROVE  /\ StreamStep /\ stream'[c].st = "closed"
           /\ \A d \in Client \ {c} : stream'[d] = stream[d]
<1>1. PICK row : row = [stream[c] EXCEPT !.st = "closed", !.code = "", !.val = NoValue]
  OBVIOUS
<1>2. stream' = [stream EXCEPT ![c] = row]
  BY <1>1 DEF Closed
<1>3. StreamColumns \subseteq DOMAIN stream[c]
  BY DEF SendsInv, StreamInv
<1>4. StreamColumns \subseteq DOMAIN row /\ row.k = stream[c].k /\ row.st = "closed"
  BY <1>1, <1>3 DEF StreamColumns
<1> QED
  BY <1>2, <1>4 DEF SendsInv, StreamInv, StreamStep

(* What both ways to return leave alone.                                   *)
LEMMA ReturnQuiet ==
    ASSUME SendsInv, NEW c \in Client, Closed(c), Rest,
           DOMAIN job' = Client, \A d \in Client \ {c} : job'[d] = job[d]
    PROVE  HistInv' /\ StreamInv' /\ NetInv' /\ RecordsInv' /\ FitsKept /\ ScriptInv' /\ CallInv'
<1>1. Quiet /\ net' \subseteq net /\ StreamStep
  BY SameQuiet, ClosedIs DEF SendsInv, Rest
<1>2. HistInv' /\ StreamInv' /\ NetInv' /\ RecordsInv' /\ FitsKept
  BY <1>1, QuietKeeps
<1>3. ScriptInv'
  BY DEF SendsInv, ScriptInv, Rest
<1>4. CallInv'
  <2> SUFFICES ASSUME NEW d \in Client, Wakes(d)'
               PROVE  /\ stream'[d].st = "open" =>
                            \A n \in net' : n.c = d /\ n.k = stream'[d].k => n.rpc \in Wakers
                      /\ stream'[d].st = "answered" => Fits(stream[d].code, d, stream[d].k)'
    BY DEF CallInv
  <2>1. CASE d = c
    BY <2>1, ClosedIs
  <2>2. CASE d # c
    <3>1. stream'[d] = stream[d] /\ job'[d] = job[d] /\ script' = script /\ net' = net
      BY <2>2, ClosedIs DEF Rest
    <3>2. Wakes(d)
      BY <3>1, BusyIs
    <3>3. PICK n, cd : n = stream[d].k /\ cd = stream[d].code
      OBVIOUS
    <3>4. stream[d].st = "answered" => Fits(cd, d, n)'
      BY <1>2, <3>2, <3>3 DEF FitsKept, SendsInv, CallInv
    <3> QED
      BY <3>1, <3>2, <3>3, <3>4 DEF SendsInv, CallInv
  <2> QED
    BY <2>1, <2>2
<1> QED
  BY <1>2, <1>3, <1>4

LEMMA TurnKeeps ==
    ASSUME SendsInv, NEW c \in Client, NEW j, SameCall(job[c], j), Continue(c, j)
    PROVE  SendsInv'
<1>1. /\ DOMAIN job' = Client /\ job'[c] = j /\ \A d \in Client \ {c} : job'[d] = job[d]
      /\ Closed(c) /\ Rest /\ log' = log /\ script' = script
  BY DEF Continue, SendsInv, JobInv, Rest
<1>2. /\ HistInv' /\ StreamInv' /\ NetInv' /\ RecordsInv' /\ FitsKept /\ ScriptInv' /\ CallInv'
  BY <1>1, ReturnQuiet
<1>3. \A d \in Client : job'[d].at = job[d].at /\ JobColumns \subseteq DOMAIN job'[d]
  BY <1>1 DEF SameCall, SendsInv, JobInv
<1>4. \A d \in Client : Busy(d)' = Busy(d)
  BY <1>1, <1>3, BusyIs
<1>5. JobInv'
  BY <1>1, <1>3, <1>4 DEF SendsInv, JobInv
<1>6. LogInv'
  BY <1>1, <1>2, ClosedIs, LogIsKept DEF LogKept, SendsInv
<1> QED
  BY <1>2, <1>5, <1>6 DEF SendsInv

LEMMA FinishKeeps ==
    ASSUME SendsInv, NEW c \in Client, Busy(c), stream[c].st = "answered",
           NEW code, Wakes(c) => code \in {stream[c].code, "Unavailable"},
           NEW j, SameCall(job[c], j), NEW handle, Finish(c, code, j, handle)
    PROVE  SendsInv'
<1>1. PICK n, next : n = stream[c].k /\ next = NextCall(c, j.at + 1, handle)
  OBVIOUS
<1>2. PICK e : e.code = code /\ e.k = n /\ log' = [log EXCEPT ![c] = Append(log[c], e)]
  BY <1>1 DEF Finish
<1>3. /\ DOMAIN job' = Client /\ job'[c] = NewJob(next, handle)
      /\ \A d \in Client \ {c} : job'[d] = job[d]
      /\ Closed(c) /\ Rest /\ script' = script
  BY <1>1 DEF Finish, SendsInv, JobInv, Rest
<1>4. /\ HistInv' /\ StreamInv' /\ NetInv' /\ RecordsInv' /\ FitsKept /\ ScriptInv' /\ CallInv'
  BY <1>3, ReturnQuiet
<1>5. /\ IsTable(log[c]) /\ Len(log[c]) \in Nat /\ DOMAIN log[c] = 1 .. Len(log[c])
      /\ job[c].at = Len(log[c]) + 1 /\ j.at = job[c].at
      /\ IsTable(script[c]) /\ Len(script[c]) \in Nat /\ DOMAIN script[c] = 1 .. Len(script[c])
  BY TableIs DEF SendsInv, JobInv, ScriptInv, SameCall
<1>6. /\ DOMAIN log' = Client /\ \A d \in Client \ {c} : log'[d] = log[d]
      /\ log'[c] = Append(log[c], e)
  BY <1>2 DEF SendsInv, JobInv
<1>7. /\ IsTable(log'[c]) /\ Len(log'[c]) = Len(log[c]) + 1
      /\ DOMAIN log'[c] = 1 .. (Len(log[c]) + 1)
      /\ \A i \in DOMAIN log[c] : log'[c][i] = log[c][i]
      /\ log'[c][Len(log[c]) + 1] = e
  <2>1. PICK s : s = Append(log[c], e)
    OBVIOUS
  <2>2. /\ IsTable(s) /\ Len(s) = Len(log[c]) + 1
        /\ \A i \in 1 .. Len(log[c]) : s[i] = log[c][i]
        /\ s[Len(log[c]) + 1] = e
    BY <1>5, <2>1, TableAppend
  <2>3. DOMAIN s = 1 .. (Len(log[c]) + 1)
    BY <2>2, TableIs
  <2> QED
    BY <1>5, <1>6, <2>1, <2>2, <2>3
<1>8. next = Len(script[c]) + 1 \/ next = Len(log[c]) + 2
  BY <1>1, <1>5 DEF NextCall
<1>9. JobInv'
  <2>1. /\ JobColumns \subseteq DOMAIN job'[c] /\ job'[c].at = next /\ next \in Nat
    BY <1>3, <1>5, <1>8, NewJobIs
  <2>2. Busy(c)' => job'[c].at = Len(log'[c]) + 1
    BY <1>3, <1>5, <1>7, <1>8, <2>1 DEF Busy
  <2>3. \A d \in Client \ {c} : Busy(d)' = Busy(d)
    BY <1>3, BusyIs
  <2>4. \A d \in Client \ {c} : /\ JobColumns \subseteq DOMAIN job'[d] /\ job'[d].at \in Nat
                                /\ IsTable(log'[d])
                                /\ Busy(d)' => job'[d].at = Len(log'[d]) + 1
    BY <1>3, <1>6, <2>3 DEF SendsInv, JobInv
  <2> QED
    BY <1>3, <1>6, <1>7, <2>1, <2>2, <2>4 DEF JobInv
<1>10. LogInv'
  <2>1. StreamStep
    BY <1>3, ClosedIs
  <2> SUFFICES ASSUME NEW d \in Client, NEW i \in DOMAIN log'[d]
               PROVE  /\ log'[d][i].k \in Nat /\ log'[d][i].k <= stream'[d].k
                      /\ script[d][i].do \in WakeCalls => Fits(log[d][i].code, d, log[d][i].k)'
    BY <1>3 DEF LogInv
  <2>2. PICK cd, k : cd = log'[d][i].code /\ k = log'[d][i].k
    OBVIOUS
  <2>3. Fits(cd, d, k) => Fits(cd, d, k)'
    BY <1>4 DEF FitsKept
  <2>4. CASE d # c \/ i \in DOMAIN log[c]
    <3>1. i \in DOMAIN log[d] /\ cd = log[d][i].code /\ k = log[d][i].k
      BY <1>6, <1>7, <2>2, <2>4
    <3>2. k \in Nat /\ k <= stream[d].k /\ (script[d][i].do \in WakeCalls => Fits(cd, d, k))
      BY <3>1 DEF SendsInv, LogInv
    <3> QED
      BY <2>1, <2>2, <2>3, <3>2 DEF StreamStep
  <2>5. CASE d = c /\ i = Len(log[c]) + 1
    <3>1. cd = code /\ k = n /\ n \in Nat
      BY <1>1, <1>2, <1>7, <2>2, <2>5 DEF SendsInv, StreamInv
    <3>2. script[c][i].do \in WakeCalls => Wakes(c)
      BY <1>5, <2>5 DEF Wakes, Doing
    <3>3. Wakes(c) => Fits(cd, c, n)
      <4>1. Wakes(c) => Fits(stream[c].code, c, stream[c].k)
        BY DEF SendsInv, CallInv
      <4>2. Fits("Unavailable", c, n)
        BY DEF Fits
      <4> QED
        BY <1>1, <3>1, <4>1, <4>2
    <3> QED
      BY <1>1, <2>1, <2>2, <2>3, <2>5, <3>1, <3>2, <3>3 DEF StreamStep
  <2> QED
    BY <1>5, <1>7, <2>4, <2>5
<1> QED
  BY <1>4, <1>9, <1>10 DEF SendsInv

LEMMA ReturnKeeps ==
    ASSUME SendsInv, NEW c \in Client, Return(c)
    PROVE  SendsInv'
<1>1. Busy(c) /\ stream[c].st = "answered"
  BY DEF Return, CallReturns, GetDescribed, HistoryPaged, ListPaged, CallFails, CallAgain, Back
<1>2. JobColumns \subseteq DOMAIN job[c]
  BY DEF SendsInv, JobInv
<1>3. ASSUME NEW j, SameCall(job[c], j), Continue(c, j) PROVE SendsInv'
  BY <1>3, TurnKeeps
<1>4. ASSUME NEW code, NEW j, NEW handle, SameCall(job[c], j), Finish(c, code, j, handle),
             Wakes(c) => code \in {stream[c].code, "Unavailable"}
      PROVE  SendsInv'
  BY <1>1, <1>4, FinishKeeps
<1>5. CASE CallReturns(c)
  <2>1. PICK j, handle : /\ j = [job[c] EXCEPT !.settled = stream[c].val.run]
                         /\ Finish(c, stream[c].code, j, handle)
    BY <1>5 DEF CallReturns, Answered
  <2>2. SameCall(job[c], j)
    BY <1>2, <2>1, JobUpdates
  <2> QED
    BY <1>4, <2>1, <2>2
<1>6. CASE GetDescribed(c)
  <2>1. ~Wakes(c)
    BY <1>6 DEF GetDescribed, Back, Wakes, WakeCalls
  <2>2. PICK j : j = [job[c] EXCEPT !.settled = stream[c].val.run,
                                    !.status = stream[c].val.status]
    OBVIOUS
  <2>3. \/ Continue(c, [j EXCEPT !.stage = "fetch"])
        \/ Finish(c, "Unsuccessful", j, stream[c].val.run)
        \/ Continue(c, [job[c] EXCEPT !.run = NoRun])
        \/ Continue(c, [job[c] EXCEPT !.run = stream[c].val.run])
    BY <1>6, <2>2 DEF GetDescribed
  <2>4. /\ SameCall(job[c], j) /\ SameCall(job[c], [j EXCEPT !.stage = "fetch"])
        /\ SameCall(job[c], [job[c] EXCEPT !.run = NoRun])
        /\ SameCall(job[c], [job[c] EXCEPT !.run = stream[c].val.run])
    BY <1>2, <2>2, JobUpdates
  <2> QED
    BY <1>3, <1>4, <2>1, <2>3, <2>4
<1>7. CASE HistoryPaged(c)
  <2>1. ~Wakes(c)
    BY <1>7 DEF HistoryPaged, Back, Wakes, WakeCalls
  <2>2. PICK j : j = [job[c] EXCEPT !.got = job[c].got \o stream[c].val.events,
                                    !.token = stream[c].val.token]
    OBVIOUS
  <2>3. Continue(c, j) \/ \E code, handle : Finish(c, code, j, handle)
    BY <1>7, <2>2 DEF HistoryPaged
  <2>4. SameCall(job[c], j)
    BY <1>2, <2>2, JobUpdates
  <2> QED
    BY <1>3, <1>4, <2>1, <2>3, <2>4
<1>8. CASE ListPaged(c)
  <2>1. ~Wakes(c)
    BY <1>8 DEF ListPaged, Back, Wakes, WakeCalls
  <2>2. PICK j : j = [job[c] EXCEPT !.got = job[c].got \o stream[c].val.runs,
                                    !.token = stream[c].val.token]
    OBVIOUS
  <2>3. Continue(c, j) \/ \E code, handle : Finish(c, code, j, handle)
    BY <1>8, <2>2 DEF ListPaged
  <2>4. SameCall(job[c], j)
    BY <1>2, <2>2, JobUpdates
  <2> QED
    BY <1>3, <1>4, <2>1, <2>3, <2>4
<1>9. CASE CallFails(c)
  <2>1. Finish(c, stream[c].code, job[c], job[c].handle)
    BY <1>9 DEF CallFails, Answered
  <2>2. SameCall(job[c], job[c])
    BY <1>2, JobUpdates
  <2> QED
    BY <1>4, <2>1, <2>2
<1>10. CASE CallAgain(c)
  <2>1. PICK sends, anew : /\ anew = [NewJob(job[c].at, job[c].handle) EXCEPT !.sends = sends]
                           /\ \/ Continue(c, anew)
                              \/ Continue(c, [job[c] EXCEPT !.sends = sends])
                              \/ Finish(c, "Unavailable", job[c], job[c].handle)
    BY <1>10 DEF CallAgain
  <2>2. SameCall(job[c], job[c]) /\ SameCall(job[c], [job[c] EXCEPT !.sends = sends])
    BY <1>2, JobUpdates
  <2>3. SameCall(job[c], anew)
    <3>1. PICK new : new = NewJob(job[c].at, job[c].handle)
      OBVIOUS
    <3>2. JobColumns \subseteq DOMAIN new /\ new.at = job[c].at
      BY <3>1, NewJobIs
    <3>3. SameCall(new, [new EXCEPT !.sends = sends])
      BY <3>2, JobUpdates
    <3> QED
      BY <2>1, <3>1, <3>2, <3>3 DEF SameCall
  <2> QED
    BY <1>3, <1>4, <2>1, <2>2, <2>3
<1> QED
  BY <1>5, <1>6, <1>7, <1>8, <1>9, <1>10 DEF Return

-----------------------------------------------------------------------------
(* The theorem.                                                            *)

LEMMA SendsInvStep == RunsInv /\ SendsInv /\ [Next]_vars => SendsInv'
<1> SUFFICES ASSUME RunsInv, SendsInv, [Next]_vars PROVE SendsInv'
  OBVIOUS
<1>1. CASE Done \/ UNCHANGED vars
  <2>1. /\ UNCHANGED <<execs, net, stream, script, log, job>>
    BY <1>1 DEF Done, vars
  <2>2. Quiet /\ StreamStep
    BY <2>1, SameQuiet DEF SendsInv, StreamInv, StreamStep
  <2> QED
    BY <2>1, <2>2, OthersKeep
<1> QED
  BY <1>1, InvokeKeeps, ReturnKeeps, ServeKeeps, NetworkKeeps, WorkerKeeps DEF Next

LEMMA SendsInvInit == Init => SendsInv
<1> SUFFICES ASSUME Init PROVE SendsInv
  OBVIOUS
<1>1. execs = << >> /\ net = {} /\ DOMAIN execs = {}
  <2>1. DOMAIN << >> = {}
    OBVIOUS
  <2> QED
    BY <2>1 DEF Init
<1>2. \A x, i, c, k : ~Rec(execs, x, i, c, k)
  BY <1>1 DEF Rec
<1>3. HistInv /\ NetInv /\ RecordsInv
  BY <1>1, <1>2 DEF HistInv, NetInv, RecordsInv
<1>4. StreamInv /\ \A c \in Client : stream[c].st = "closed"
  BY DEF Init, StreamInv, StreamColumns
<1>5. CallInv
  BY <1>4 DEF CallInv
<1>6. ScriptInv
  <2>1. PICK s \in Scenarios : script = s.calls
    BY DEF Init
  <2> QED
    BY <2>1, ScenariosAssumption DEF ScriptInv, IsTable
<1>7. DOMAIN log = Client /\ \A c \in Client : log[c] = << >>
  BY DEF Init
<1>8. JobInv
  <2>1. IsTable(<< >>) /\ Len(<< >>) = 0
    BY DEF IsTable
  <2>2. /\ DOMAIN job = Client
        /\ \A c \in Client : job[c] = NewJob(1, NoRun)
    BY DEF Init
  <2>3. JobColumns \subseteq DOMAIN NewJob(1, NoRun) /\ NewJob(1, NoRun).at = 1
    BY NewJobIs
  <2> QED
    BY <1>7, <2>1, <2>2, <2>3 DEF JobInv
<1>9. LogInv
  BY <1>7 DEF LogInv
<1> QED
  BY <1>3, <1>4, <1>5, <1>6, <1>8, <1>9 DEF SendsInv

LEMMA RecordsAre ==
    ASSUME NEW c, NEW k, NEW p
    PROVE  p \in Records(c, k) <=> \E x, i : p = <<x, i>> /\ Rec(execs, x, i, c, k)
BY DEF Records, Rec

LEMMA SendsAreAccounted == SendsInv => SignalsAccounted
<1> SUFFICES ASSUME SendsInv, NEW c \in Client
             PROVE  /\ \A k \in 1 .. stream[c].k : Cardinality(Records(c, k)) <= 1
                    /\ \A i \in Logged(c, "signal") \cup Logged(c, "cancel")
                                  \cup Logged(c, "terminate") :
                         /\ log[c][i].code = "OK" => Records(c, log[c][i].k) # {}
                         /\ log[c][i].code \notin {"OK", "Unavailable"}
                              => Records(c, log[c][i].k) = {}
  BY DEF SignalsAccounted
<1>1. ASSUME NEW k PROVE Cardinality(Records(c, k)) <= 1
  <2>1. CASE Records(c, k) = {}
    BY <2>1, FS_EmptySet
  <2>2. CASE Records(c, k) # {}
    <3>1. PICK p : p \in Records(c, k)
      BY <2>2
    <3>2. PICK x, i : p = <<x, i>> /\ Rec(execs, x, i, c, k)
      BY <3>1, RecordsAre
    <3>3. ASSUME NEW q \in Records(c, k) PROVE q = p
      <4>1. PICK y, j : q = <<y, j>> /\ Rec(execs, y, j, c, k)
        BY RecordsAre
      <4>2. x = y /\ i = j
        BY <3>2, <4>1 DEF SendsInv, RecordsInv
      <4> QED
        BY <3>2, <4>1, <4>2
    <3>4. Records(c, k) = {p}
      BY <3>1, <3>3
    <3> QED
      BY <3>4, FS_Singleton
  <2> QED
    BY <2>1, <2>2
<1>2. ASSUME NEW k PROVE Records(c, k) # {} <=> Recorded(c, k)
  BY RecordsAre DEF Recorded
<1>3. ASSUME NEW i \in Logged(c, "signal") \cup Logged(c, "cancel") \cup Logged(c, "terminate")
      PROVE  Fits(log[c][i].code, c, log[c][i].k)
  <2>1. i \in DOMAIN log[c] /\ script[c][i].do \in WakeCalls
    BY <1>3 DEF Logged, WakeCalls
  <2> QED
    BY <2>1 DEF SendsInv, LogInv
<1> QED
  BY <1>1, <1>2, <1>3 DEF Fits

(* A send of a signal, a cancellation or a termination is recorded at most *)
(* once, in one run; it is recorded if it was acknowledged, and never if   *)
(* it was refused, in whatever order the handlers of a caller's sends run  *)
(* and answer (SignalWorkflow, RequestCancelWorkflow, TerminateWorkflow).  *)
THEOREM SendsAreAccountedFor == Spec => []SignalsAccounted
<1>1. Init => RunsInv /\ SendsInv
  BY RunsInvInit, SendsInvInit
<1>2. RunsInv /\ SendsInv /\ [Next]_vars => (RunsInv /\ SendsInv)'
  BY RunsInvStep, SendsInvStep
<1>3. RunsInv /\ SendsInv => SignalsAccounted
  BY SendsAreAccounted
<1> QED
  BY <1>1, <1>2, <1>3, PTL DEF Spec

-----------------------------------------------------------------------------
(* Histories that grow.                                                    *)

(* t begins with s.                                                        *)
Begins(s, t) ==
    /\ IsTable(s) /\ IsTable(t) /\ Len(s) <= Len(t)
    /\ \A i \in 1 .. Len(s) : s[i] = t[i]

LEMMA BeginsSelf ==
    ASSUME NEW s, IsTable(s)
    PROVE  Begins(s, s) /\ IsTable(<< >>) /\ Begins(<< >>, s)
<1>1. Len(s) \in Nat
  BY TableIs
<1>2. IsTable(<< >>) /\ Len(<< >>) = 0
  BY DEF IsTable
<1> QED
  BY <1>1, <1>2 DEF Begins

LEMMA BeginsThrough ==
    ASSUME NEW s, NEW t, NEW u, Begins(s, t), Begins(t, u)
    PROVE  Begins(s, u)
<1>1. Len(s) \in Nat /\ Len(t) \in Nat /\ Len(u) \in Nat
  BY TableIs DEF Begins
<1> QED
  BY <1>1 DEF Begins

Longer(a, b) ==
    /\ DOMAIN a \subseteq DOMAIN b
    /\ \A x \in DOMAIN a : b[x].slot = a[x].slot /\ Begins(a[x].hist, b[x].hist)

LEMMA LongerThrough ==
    ASSUME NEW a, NEW b, NEW d, Longer(a, b), Longer(b, d)
    PROVE  Longer(a, d)
<1> SUFFICES ASSUME NEW x \in DOMAIN a
             PROVE  d[x].slot = a[x].slot /\ Begins(a[x].hist, d[x].hist)
  BY DEF Longer
<1>1. x \in DOMAIN b
  BY DEF Longer
<1>2. Begins(a[x].hist, b[x].hist) /\ Begins(b[x].hist, d[x].hist)
  BY <1>1 DEF Longer
<1> QED
  BY <1>1, <1>2, BeginsThrough DEF Longer

LEMMA SameLonger ==
    ASSUME HistInv, execs' = execs
    PROVE  Longer(execs, execs')
BY BeginsSelf DEF HistInv, Longer

(* The tables after evs have been added to run r.                          *)
Written(ex, r, evs) ==
    \E due : \/ ex = [execs EXCEPT ![r] = Appended(execs[r], evs, due)]
            \/ \E st : ex = [execs EXCEPT ![r] =
                               [Appended(execs[r], evs, due) EXCEPT !.status = st]]

LEMMA AppendedLonger ==
    ASSUME RunsInv, HistInv, NEW r \in DOMAIN execs, NEW evs, IsTable(evs), NEW ex,
           Written(ex, r, evs)
    PROVE  Longer(execs, ex)
<1>0. PICK due : \/ ex = [execs EXCEPT ![r] = Appended(execs[r], evs, due)]
                 \/ \E st : ex = [execs EXCEPT ![r] =
                                    [Appended(execs[r], evs, due) EXCEPT !.status = st]]
  BY DEF Written
<1>1. PICK u : u = Appended(execs[r], evs, due)
  OBVIOUS
<1>2. RunColumns \subseteq DOMAIN execs[r]
  BY DEF RunsInv
<1>3. /\ u.hist = execs[r].hist \o evs /\ RunColumns \subseteq DOMAIN u
      /\ u.slot = execs[r].slot
  BY <1>1, <1>2 DEF Appended, RunColumns
<1>4. ASSUME NEW st
      PROVE  [u EXCEPT !.status = st].hist = u.hist /\ [u EXCEPT !.status = st].slot = u.slot
  BY <1>3 DEF RunColumns
<1>5. PICK v : ex = [execs EXCEPT ![r] = v] /\ v.hist = u.hist /\ v.slot = execs[r].slot
  <2>1. \/ ex = [execs EXCEPT ![r] = u]
        \/ \E st : ex = [execs EXCEPT ![r] = [u EXCEPT !.status = st]]
    BY <1>0, <1>1
  <2>2. CASE ex = [execs EXCEPT ![r] = u]
    BY <1>3, <2>2
  <2>3. ASSUME NEW st, ex = [execs EXCEPT ![r] = [u EXCEPT !.status = st]]
        PROVE  \E v : ex = [execs EXCEPT ![r] = v] /\ v.hist = u.hist /\ v.slot = execs[r].slot
    <3>1. PICK v : v = [u EXCEPT !.status = st]
      OBVIOUS
    <3>2. v.hist = u.hist /\ v.slot = execs[r].slot
      BY <1>3, <1>4, <3>1
    <3> QED
      BY <2>3, <3>1, <3>2
  <2> QED
    BY <2>1, <2>2, <2>3
<1>6. IsTable(execs[r].hist)
  BY DEF HistInv
<1>7. PICK h, h2 : h = execs[r].hist /\ h2 = v.hist
  OBVIOUS
<1>8. h2 = h \o evs /\ IsTable(h)
  BY <1>3, <1>5, <1>6, <1>7
<1>9. Begins(h, h2)
  <2>1. IsTable(h2) /\ Len(h2) = Len(h) + Len(evs) /\ \A i \in 1 .. Len(h) : h2[i] = h[i]
    BY <1>8, ConcatIs
  <2>2. Len(h) \in Nat /\ Len(evs) \in Nat
    BY <1>8, TableIs
  <2> QED
    BY <1>8, <2>1, <2>2 DEF Begins
<1>10. DOMAIN ex = DOMAIN execs /\ ex[r] = v /\ \A x \in DOMAIN execs : x # r => ex[x] = execs[x]
  BY <1>5
<1> SUFFICES ASSUME NEW x \in DOMAIN execs
             PROVE  ex[x].slot = execs[x].slot /\ Begins(execs[x].hist, ex[x].hist)
  BY <1>10 DEF Longer
<1>11. CASE x = r
  BY <1>5, <1>7, <1>9, <1>10, <1>11
<1>12. CASE x # r
  BY <1>10, <1>12, BeginsSelf DEF HistInv
<1> QED
  BY <1>11, <1>12

LEMMA AddedLonger ==
    ASSUME NEW rows, IsTable(rows), HistTables(rows), NEW row
    PROVE  Longer(rows, Append(rows, row))
<1>1. PICK a : a = Append(rows, row)
  OBVIOUS
<1>2. /\ DOMAIN a = 1 .. Len(a) /\ Len(a) = Len(rows) + 1
      /\ DOMAIN rows = 1 .. Len(rows) /\ Len(rows) \in Nat
      /\ \A i \in 1 .. Len(rows) : a[i] = rows[i]
  BY <1>1, TableAppend, TableIs
<1>3. DOMAIN rows \subseteq DOMAIN a /\ \A x \in DOMAIN rows : a[x] = rows[x]
  BY <1>2
<1>4. Longer(rows, a)
  BY <1>3, BeginsSelf DEF HistTables, Longer
<1> QED
  BY <1>1, <1>4

LEMMA OneTable ==
    ASSUME NEW e
    PROVE  IsTable(<<e>>)
<1>1. <<e>> \in Seq({e}) /\ {<<e>>[i] : i \in DOMAIN <<e>>} = {e}
  OBVIOUS
<1> QED
  BY <1>1 DEF IsTable

LEMMA HandleLonger ==
    ASSUME RunsInv, HistInv, NEW m, Handle(m)
    PROVE  Longer(execs, execs')
<1>1. ASSUME NEW rpc, NEW type, WakeWorkflowExecution(m, rpc, type)
      PROVE  Longer(execs, execs')
  <2>1. PICK evs : evs = <<Event(type, <<m.c, m.k>>), Event("TaskScheduled", Nobody)>>
    OBVIOUS
  <2>2. IsTable(evs)
    BY <2>1, TupleTables
  <2>3. TargetRun(m) \in DOMAIN execs /\ Written(execs', TargetRun(m), evs)
    BY <1>1, <2>1 DEF WakeWorkflowExecution, Found, Written
  <2> QED
    BY <2>2, <2>3, AppendedLonger
<1>2. ASSUME TerminateWorkflowExecution(m) PROVE Longer(execs, execs')
  <2>1. PICK e, evs : e = Event("Terminated", <<m.c, m.k>>) /\ evs = <<e>>
    OBVIOUS
  <2>2. IsTable(evs)
    BY <2>1, OneTable
  <2>3. TargetRun(m) \in DOMAIN execs /\ Written(execs', TargetRun(m), evs)
    BY <1>2, <2>1 DEF TerminateWorkflowExecution, Found, Written
  <2> QED
    BY <2>2, <2>3, AppendedLonger
<1>3. ASSUME StartWorkflowExecution(m) PROVE Longer(execs, execs')
  <2>1. PICK row : execs' = Append(execs, row)
    BY <1>3 DEF StartWorkflowExecution, Create
  <2> QED
    BY <2>1, AddedLonger DEF RunsInv, HistInv, HistTables
<1>4. CASE \/ Refuse(m) \/ Missing(m) \/ ConflictsOut(m) \/ StartReplayed(m) \/ StartRefused(m)
           \/ CreateNamespace(m) \/ ListNamespaces(m) \/ DescribeWorkflowExecution(m)
           \/ GetWorkflowExecutionHistory(m) \/ ListWorkflowExecutions(m)
  <2>1. execs' = execs
    BY <1>4 DEF Refuse, Missing, ConflictsOut, StartReplayed, StartRefused, CreateNamespace,
       ListNamespaces, DescribeWorkflowExecution, GetWorkflowExecutionHistory,
       ListWorkflowExecutions, server
  <2> QED
    BY <2>1, SameLonger
<1> QED
  BY <1>1, <1>2, <1>3, <1>4 DEF Handle, SignalWorkflowExecution, RequestCancelWorkflowExecution

LEMMA WorkLonger ==
    ASSUME RunsInv, HistInv, NEW r \in DOMAIN execs, Work(r)
    PROVE  Longer(execs, execs')
<1>1. ASSUME NEW type, NEW status, CloseBy(r, type, status) PROVE Longer(execs, execs')
  <2>1. PICK e, evs : e = Event(type, Nobody) /\ evs = <<e>>
    OBVIOUS
  <2>2. IsTable(evs)
    BY <2>1, OneTable
  <2>3. Written(execs', r, evs)
    BY <1>1, <2>1 DEF CloseBy, Written
  <2> QED
    BY <2>2, <2>3, AppendedLonger
<1>2. ASSUME WorkflowTaskProgress(r) PROVE Longer(execs, execs')
  <2>1. PICK e, evs : e = Event("TaskCompleted", Nobody) /\ evs = <<e>>
    OBVIOUS
  <2>2. IsTable(evs)
    BY <2>1, OneTable
  <2>3. Written(execs', r, evs)
    BY <1>2, <2>1 DEF WorkflowTaskProgress, Written
  <2> QED
    BY <2>2, <2>3, AppendedLonger
<1>3. ASSUME ContinueWorkflowAsNew(r) PROVE Longer(execs, execs')
  <2>1. PICK e, evs, rows : /\ e = Event("ContinuedAsNew", Nobody) /\ evs = <<e>> /\ rows = ContinuedRows(r)
    OBVIOUS
  <2>2. IsTable(evs)
    BY <2>1, OneTable
  <2>3. rows = [execs EXCEPT ![r] =
                  [Appended(execs[r], evs, -1) EXCEPT !.status = "CONTINUED_AS_NEW"]]
    BY <2>1 DEF ContinuedRows
  <2>4. Longer(execs, rows)
    <3>1. Written(rows, r, evs)
      BY <2>3 DEF Written
    <3> QED
      BY <2>2, <3>1, AppendedLonger
  <2>5. Grows(execs, rows, r, evs)
    BY <2>3, AppendedGrows
  <2>6. IsTable(rows) /\ HistTables(rows)
    BY <2>2, <2>5, RecUpdated DEF RunsInv
  <2>7. PICK row : execs' = Append(rows, row)
    BY <1>3, <2>1 DEF ContinueWorkflowAsNew, Create
  <2>8. Longer(rows, execs')
    BY <2>6, <2>7, AddedLonger
  <2> QED
    BY <2>4, <2>8, LongerThrough
<1> QED
  BY <1>1, <1>2, <1>3 DEF Work, WorkflowCompletes, WorkflowFails

-----------------------------------------------------------------------------
(* Histories that are read page by page.                                   *)

(* A call that reads a history, and a Get that is not yet at it.           *)
Reading(c) ==
    /\ Busy(c) /\ Doing(c).do \in {"history", "get"}
    /\ Doing(c).do = "get" => job[c].stage = "fetch"

Describing(c) == Busy(c) /\ Doing(c).do = "get" /\ job[c].stage = "describe"

Fresh(j) == j.got = << >> /\ j.token = << >> /\ j.was = {}

(* The history the call reads.                                             *)
Read(c) == HistoryOf(c, HistoryRun(c))

(* A request of the call's, for its next page.                             *)
Asks(c, m) ==
    /\ m.rpc = "GetHistory" /\ m.run = HistoryRun(c) /\ m.token = job[c].token /\ m.page = 0
    /\ Slot(m) = <<NamespaceOrDefault(Options[c].ns), Doing(c).wf>>

(* An answer with that page, as of some time since the request.            *)
IsPage(c, events, token) ==
    LET got == job[c].got \o events
    IN /\ IsTable(events) /\ Begins(got, Read(c))
       /\ IF token = << >> THEN job[c].was \subseteq 1 .. Len(got)
                           ELSE token = <<Len(got)>> /\ Len(events) > 0

(* What the call has so far, and what it waits for or has been answered.   *)
Holds(c) ==
    /\ Begins(job[c].got, Read(c))
    /\ job[c].token = IF job[c].got = << >> THEN << >> ELSE <<Len(job[c].got)>>
    /\ job[c].was \subseteq 1 .. Len(Read(c))

Awaits(c) ==
    stream[c].st = "open" => \A m \in net : m.c = c /\ m.k = stream[c].k => Asks(c, m)

Heard(c) ==
    stream[c].st = "answered" /\ stream[c].code = "OK"
        => IsPage(c, stream[c].val.events, stream[c].val.token)

ReadHas(c) ==
    /\ Describing(c) => Fresh(job[c])
    /\ Reading(c) => Holds(c) /\ Awaits(c) /\ Heard(c)

ReadInv == \A c \in Client : ReadHas(c)

HistoryAt(r) == IF r \in DOMAIN execs THEN execs[r].hist ELSE << >>

ReadLogInv ==
    \A c \in Client : \A i \in DOMAIN log[c] :
        script[c][i].do = "history" /\ log[c][i].code = "OK" =>
            /\ Begins(log[c][i].got, HistoryAt(log[c][i].handle))
            /\ log[c][i].was \subseteq 1 .. Len(log[c][i].got)

(* What a step does to a history that is being read, or was read.          *)
LEMMA ReadGrows ==
    ASSUME HistInv', Longer(execs, execs'), script' = script, NEW c, job'[c].at = job[c].at,
           job'[c].handle = job[c].handle, job'[c].stage = job[c].stage,
           job'[c].settled = job[c].settled
    PROVE  /\ Begins(Read(c), Read(c)')
           /\ Reading(c)' = Reading(c) /\ HistoryRun(c)' = HistoryRun(c)
           /\ Describing(c)' = Describing(c) /\ Doing(c)' = Doing(c)
<1>1. /\ Reading(c)' = Reading(c) /\ HistoryRun(c)' = HistoryRun(c)
      /\ Describing(c)' = Describing(c) /\ Doing(c)' = Doing(c)
  BY DEF Reading, HistoryRun, RunOf, Doing, Busy, Describing
<1>2. PICK r, slot : r = HistoryRun(c) /\ slot = <<NamespaceOrDefault(Options[c].ns), Doing(c).wf>>
  OBVIOUS
<1>3. /\ Read(c) = IF r \in DOMAIN execs /\ execs[r].slot = slot THEN execs[r].hist ELSE << >>
      /\ Read(c)' = IF r \in DOMAIN execs' /\ execs'[r].slot = slot THEN execs'[r].hist ELSE << >>
  BY <1>1, <1>2 DEF Read, HistoryOf
<1>4. IsTable(Read(c)')
  <2>1. Read(c)' = << >> \/ \E x \in DOMAIN execs' : Read(c)' = execs'[x].hist
    BY <1>3
  <2>2. IsTable(<< >>)
    BY DEF IsTable
  <2> QED
    BY <2>1, <2>2 DEF HistInv
<1>5. CASE r \in DOMAIN execs /\ execs[r].slot = slot
  <2>1. r \in DOMAIN execs' /\ execs'[r].slot = slot /\ Begins(execs[r].hist, execs'[r].hist)
    BY <1>5 DEF Longer
  <2>2. Read(c) = execs[r].hist /\ Read(c)' = execs'[r].hist
    BY <1>3, <1>5, <2>1
  <2> QED
    BY <1>1, <2>1, <2>2
<1>6. CASE ~(r \in DOMAIN execs /\ execs[r].slot = slot)
  <2>1. Read(c) = << >>
    BY <1>3, <1>6
  <2> QED
    BY <1>1, <1>4, <2>1, BeginsSelf
<1> QED
  BY <1>5, <1>6

SteadyJob(c) == script' = script /\ job'[c] = job[c]

LEMMA HoldsOn ==
    ASSUME HistInv', Longer(execs, execs'), NEW c, SteadyJob(c), Holds(c)
    PROVE  Holds(c)' /\ \A events, token : IsPage(c, events, token) => IsPage(c, events, token)'
<1>1. Begins(Read(c), Read(c)') /\ job'[c] = job[c]
  BY ReadGrows DEF SteadyJob
<1>2. Len(Read(c)) \in Nat /\ Len(Read(c)') \in Nat /\ Len(Read(c)) <= Len(Read(c)')
  BY <1>1, TableIs DEF Begins
<1>3. Begins(job[c].got, Read(c)')
  BY <1>1, BeginsThrough DEF Holds
<1>4. job[c].was \subseteq 1 .. Len(Read(c)')
  BY <1>2 DEF Holds
<1>5. Holds(c)'
  BY <1>1, <1>3, <1>4 DEF Holds
<1>6. ASSUME NEW events, NEW token, IsPage(c, events, token)
      PROVE  IsPage(c, events, token)'
  <2>1. PICK got : got = job[c].got \o events
    OBVIOUS
  <2>2. Begins(got, Read(c))
    BY <1>6, <2>1 DEF IsPage
  <2>3. Begins(got, Read(c)')
    BY <1>1, <2>2, BeginsThrough
  <2> QED
    BY <1>1, <1>6, <2>1, <2>3 DEF IsPage
<1> QED
  BY <1>5, <1>6

(* A caller whose stream does not move, or whose call comes to nothing.    *)
LEMMA ReaderWaits ==
    ASSUME HistInv', Longer(execs, execs'), NEW c, SteadyJob(c),
           ReadHas(c),
           \/ stream'[c] = stream[c] /\ \A m \in net' : m.c = c => m \in net
           \/ stream'[c].st = "answered" /\ stream'[c].code # "OK"
    PROVE  ReadHas(c)'
<1>1. /\ Reading(c)' = Reading(c) /\ HistoryRun(c)' = HistoryRun(c)
      /\ Describing(c)' = Describing(c) /\ Doing(c)' = Doing(c)
  BY ReadGrows DEF SteadyJob
<1>0. Describing(c)' => Fresh(job[c])'
  BY <1>1 DEF ReadHas, SteadyJob, Fresh
<1> SUFFICES ASSUME Reading(c) PROVE Holds(c)' /\ Awaits(c)' /\ Heard(c)'
  BY <1>0, <1>1 DEF ReadHas
<1> USE DEF ReadHas
<1>2. Holds(c)'
  BY HoldsOn
<1>3. \A m : Asks(c, m) => Asks(c, m)'
  <2> SUFFICES ASSUME NEW m, Asks(c, m) PROVE Asks(c, m)'
    OBVIOUS
  <2>1. job'[c].token = job[c].token
    BY DEF SteadyJob
  <2>2. Slot(m)' = Slot(m)
    BY DEF Slot
  <2> QED
    BY <1>1, <2>1, <2>2 DEF Asks
<1>4. CASE stream'[c] = stream[c] /\ \A m \in net' : m.c = c => m \in net
  <2>1. Awaits(c)'
    BY <1>3, <1>4 DEF Awaits
  <2>2. PICK events, token : events = stream[c].val.events /\ token = stream[c].val.token
    OBVIOUS
  <2>3. IsPage(c, events, token) => IsPage(c, events, token)'
    BY HoldsOn
  <2>4. Heard(c)'
    BY <1>4, <2>2, <2>3 DEF Heard
  <2> QED
    BY <1>2, <2>1, <2>4
<1>5. CASE stream'[c].st = "answered" /\ stream'[c].code # "OK"
  BY <1>2, <1>5 DEF Awaits, Heard
<1> QED
  BY <1>4, <1>5

LEMMA LogGrows ==
    ASSUME HistInv', Longer(execs, execs'), NEW s, NEW r, Begins(s, HistoryAt(r))
    PROVE  Begins(s, HistoryAt(r)')
<1>1. CASE r \in DOMAIN execs
  <2>1. r \in DOMAIN execs' /\ Begins(execs[r].hist, execs'[r].hist)
    BY <1>1 DEF Longer
  <2>2. HistoryAt(r) = execs[r].hist /\ HistoryAt(r)' = execs'[r].hist
    BY <1>1, <2>1 DEF HistoryAt
  <2> QED
    BY <2>1, <2>2, BeginsThrough
<1>2. CASE r \notin DOMAIN execs
  <2>1. IsTable(HistoryAt(r)')
    <3>1. IsTable(<< >>)
      BY DEF IsTable
    <3> QED
      BY <3>1 DEF HistoryAt, HistInv
  <2>2. HistoryAt(r) = << >>
    BY <1>2 DEF HistoryAt
  <2>3. Begins(<< >>, HistoryAt(r)')
    BY <2>1, BeginsSelf
  <2> QED
    BY <2>2, <2>3, BeginsThrough
<1> QED
  BY <1>1, <1>2

LEMMA ReadLogKept ==
    ASSUME HistInv', Longer(execs, execs'), UNCHANGED <<script, log>>, ReadLogInv
    PROVE  ReadLogInv'
<1> SUFFICES ASSUME NEW c \in Client, NEW i \in DOMAIN log[c],
                    script[c][i].do = "history", log[c][i].code = "OK"
             PROVE  /\ Begins(log[c][i].got, HistoryAt(log[c][i].handle)')
                    /\ log[c][i].was \subseteq 1 .. Len(log[c][i].got)
  BY DEF ReadLogInv, HistoryAt
<1>1. PICK got, r : got = log[c][i].got /\ r = log[c][i].handle
  OBVIOUS
<1>2. Begins(got, HistoryAt(r)) /\ log[c][i].was \subseteq 1 .. Len(got)
  BY <1>1 DEF ReadLogInv
<1>3. Begins(got, HistoryAt(r)')
  BY <1>2, LogGrows
<1> QED
  BY <1>1, <1>2, <1>3 DEF HistoryAt

(* A page of a history.                                                    *)
LEMMA RowsAre ==
    ASSUME NEW h, IsTable(h), NEW after \in Nat, after <= Len(h), NEW size \in Nat \ {0}
    PROVE  LET rows == HistoryRows(h, after, size)
           IN  /\ IsTable(rows) /\ after + Len(rows) <= Len(h)
               /\ Len(rows) # size => after + Len(rows) = Len(h)
               /\ \A i \in 1 .. Len(rows) : rows[i] = h[after + i]
<1> SUFFICES ASSUME NEW rows, rows = HistoryRows(h, after, size)
             PROVE  /\ IsTable(rows) /\ after + Len(rows) <= Len(h)
                    /\ Len(rows) # size => after + Len(rows) = Len(h)
                    /\ \A i \in 1 .. Len(rows) : rows[i] = h[after + i]
  OBVIOUS
<1> DEFINE n == IF after + size < Len(h) THEN after + size ELSE Len(h)
           S == {h[i] : i \in DOMAIN h}
           R == {rows[i] : i \in DOMAIN rows}
<1>1. Len(h) \in Nat /\ DOMAIN h = 1 .. Len(h) /\ h \in Seq(S)
  BY TableIs DEF IsTable
<1>2. n \in Nat /\ after <= n /\ n <= Len(h) /\ (n - after # size => n = Len(h))
  BY <1>1
<1> HIDE DEF S, n
<1>3. rows = SubSeq(h, after + 1, n)
  BY DEF HistoryRows, n
<1>4. /\ rows \in Seq(S) /\ Len(rows) = n - after
      /\ \A i \in 1 .. (n - after) : rows[i] = h[after + i]
  <2>1. after + 1 \in Int /\ n \in Int /\ \A i \in (after + 1) .. n : h[i] \in S
    <3>1. PICK top : top = Len(h) /\ top \in Nat
      BY <1>1
    <3>2. n <= top
      BY <1>2, <3>1
    <3>3. ASSUME NEW i \in (after + 1) .. n PROVE i \in 1 .. top
      BY <1>2, <3>1, <3>2, <3>3
    <3>4. ASSUME NEW i \in (after + 1) .. n PROVE h[i] \in S
      BY <1>1, <3>1, <3>3, <3>4 DEF S
    <3> QED
      BY <1>2, <3>4
  <2>2. PICK m : m = after + 1
    OBVIOUS
  <2>3. /\ rows \in Seq(S) /\ Len(rows) = IF m <= n THEN n - m + 1 ELSE 0
        /\ \A i \in 1 .. n - m + 1 : rows[i] = h[m + i - 1]
    BY <1>3, <2>1, <2>2, SubSeqProperties
  <2>4. n - m + 1 = n - after /\ (~(m <= n) => n - after = 0)
    BY <1>2, <2>2
  <2>5. \A i \in 1 .. (n - after) : m + i - 1 = after + i
    BY <1>2, <2>2
  <2> QED
    BY <2>3, <2>4, <2>5
<1>5. n - after \in Nat /\ DOMAIN rows = 1 .. (n - after)
  BY <1>2, <1>4
<1>6. \A i \in 1 .. (n - after) : rows[i] \in R
  BY <1>5
<1> HIDE DEF R
<1>7. rows = [i \in 1 .. (n - after) |-> rows[i]]
  BY <1>4, <1>5
<1>8. rows \in Seq(R) /\ Len(rows) = n - after
  BY <1>4, <1>5, <1>6, <1>7
<1>9. IsTable(rows)
  BY <1>8 DEF IsTable, R
<1>10. /\ after + Len(rows) <= Len(h) /\ (Len(rows) # size => after + Len(rows) = Len(h))
       /\ \A i \in 1 .. Len(rows) : rows[i] = h[after + i]
  BY <1>1, <1>2, <1>4
<1> QED
  BY <1>9, <1>10

LEMMA PageFollows ==
    ASSUME NEW h, NEW got, Begins(got, h), NEW size \in Nat \ {0}
    PROVE  LET rows == HistoryRows(h, Len(got), size)
           IN  /\ IsTable(rows) /\ Begins(got \o rows, h)
               /\ Len(got \o rows) = Len(got) + Len(rows)
               /\ Len(rows) # size => Len(got \o rows) = Len(h)
<1>1. PICK rows, after : after = Len(got) /\ rows = HistoryRows(h, after, size)
  OBVIOUS
<1>2. /\ after \in Nat /\ Len(h) \in Nat /\ after <= Len(h) /\ IsTable(h) /\ IsTable(got)
      /\ \A i \in 1 .. after : got[i] = h[i]
  BY <1>1, TableIs DEF Begins
<1>3. /\ IsTable(rows) /\ after + Len(rows) <= Len(h)
      /\ Len(rows) # size => after + Len(rows) = Len(h)
      /\ \A i \in 1 .. Len(rows) : rows[i] = h[after + i]
  BY <1>1, <1>2, RowsAre
<1>4. PICK s : s = got \o rows
  OBVIOUS
<1>5. /\ IsTable(s) /\ Len(s) = after + Len(rows) /\ Len(rows) \in Nat
      /\ \A i \in 1 .. after : s[i] = got[i]
      /\ \A j \in 1 .. Len(rows) : s[after + j] = rows[j]
  BY <1>1, <1>2, <1>3, <1>4, ConcatIs, TableIs
<1>6. ASSUME NEW i \in 1 .. Len(s) PROVE s[i] = h[i]
  <2>1. CASE i \in 1 .. after
    BY <1>2, <1>5, <2>1
  <2>2. CASE i \notin 1 .. after
    <3>1. PICK j : j = i - after
      OBVIOUS
    <3>2. j \in 1 .. Len(rows) /\ i = after + j
      BY <1>2, <1>5, <2>2, <3>1
    <3> QED
      BY <1>3, <1>5, <3>2
  <2> QED
    BY <2>1, <2>2
<1>7. Begins(s, h)
  BY <1>2, <1>3, <1>5, <1>6 DEF Begins
<1> QED
  BY <1>1, <1>3, <1>4, <1>5, <1>7

(* A call sends a request for its next page.                               *)
IsAsk(c, m) ==
    m = [Outgoing(c, "GetHistory") EXCEPT !.wf = Doing(c).wf, !.run = HistoryRun(c),
                                          !.token = job[c].token]

LEMMA AskIs ==
    ASSUME NEW c, NEW m, IsAsk(c, m)
    PROVE  /\ m.c = c /\ m.rpc = "GetHistory" /\ m.run = HistoryRun(c)
           /\ m.token = job[c].token /\ m.page = 0
           /\ Slot(m) = <<NamespaceOrDefault(Options[c].ns), Doing(c).wf>>
           /\ \/ m.k = stream[c].k + 1
              \/ m.k = stream[c].k /\ \A n \in net : ~(n.c = c /\ n.k = stream[c].k)
<1>1. m.ns = Options[c].ns /\ m.wf = Doing(c).wf
  BY DEF IsAsk, Outgoing, Request
<1>2. Slot(m) = <<NamespaceOrDefault(Options[c].ns), Doing(c).wf>>
  BY <1>1 DEF Slot
<1> QED
  BY <1>2 DEF IsAsk, Outgoing, Request

ReadsInv == ReadInv /\ ReadLogInv

LEMMA InvokeReads ==
    ASSUME SendsInv, SendsInv', ReadsInv, NEW c \in Client, Invoke(c)
    PROVE  ReadsInv'
<1>1. PICK s : SendsOne(c, s)
  BY InvokeSends
<1>2. /\ execs' = execs /\ script' = script /\ log' = log /\ HistInv /\ HistInv'
      /\ net' = net \cup {s} /\ s.c = c
      /\ \A d \in Client \ {c} : stream'[d] = stream[d]
  BY <1>1 DEF SendsOne, SendsInv
<1>3. Longer(execs, execs')
  BY <1>2, SameLonger
<1>4. ReadLogInv'
  BY <1>2, <1>3, ReadLogKept DEF ReadsInv
<1>5. \A d \in Client \ {c} : job'[d] = job[d]
  BY DEF Invoke, StartWorkflow, SignalWorkflow, CancelWorkflow, TerminateWorkflow,
     CreateNamespaceCall, ListNamespacesCall, DescribeWorkflow, GetWorkflowHistory,
     ListWorkflows, Sent, SendsInv, JobInv
<1> SUFFICES ASSUME NEW d \in Client PROVE ReadHas(d)'
  BY <1>4 DEF ReadsInv, ReadInv
<1>6. CASE d # c
  <2>1. SteadyJob(d) /\ stream'[d] = stream[d] /\ \A n \in net' : n.c = d => n \in net
    BY <1>2, <1>5, <1>6 DEF SteadyJob
  <2>2. ReadHas(d)
    BY DEF ReadsInv, ReadInv
  <2> QED
    BY <1>2, <1>3, <2>1, <2>2, ReaderWaits
<1>7. CASE d = c
  <2>1. job'[c].at = job[c].at
    BY <1>1 DEF SendsOne
  <2>0. /\ job'[c].stage = job[c].stage /\ job'[c].settled = job[c].settled
        /\ Describing(c) => job' = job
    <3>1. CASE job' = job
      BY <3>1
    <3>2. CASE \/ job' = [job EXCEPT ![c].sends = job[c].sends + 1] /\ ~Describing(c)
               \/ (\E was : job' = [job EXCEPT ![c].was = was]) /\ ~Describing(c)
      BY <3>2 DEF SendsInv, JobInv, JobColumns
    <3> QED
      BY <3>1, <3>2 DEF Invoke, StartWorkflow, SignalWorkflow, CancelWorkflow, TerminateWorkflow,
         CreateNamespaceCall, ListNamespacesCall, DescribeWorkflow, GetWorkflowHistory,
         ListWorkflows, Sent, May, Describing
  <2>1a. Describing(c)' => Fresh(job[c])'
    <3>1. Describing(c)' => Describing(c)
      BY <1>2, <2>0, <2>1 DEF Describing, Busy, Doing
    <3> QED
      BY <2>0, <3>1 DEF ReadsInv, ReadInv, ReadHas, Fresh
  <2> SUFFICES ASSUME Reading(c)' PROVE Holds(c)' /\ Awaits(c)' /\ Heard(c)'
    BY <1>7, <2>1a DEF ReadHas
  <2>2. Reading(c) /\ Doing(c)' = Doing(c)
    BY <1>2, <2>0, <2>1 DEF Reading, Busy, Doing
  <2>3. GetWorkflowHistory(c)
    BY <2>2 DEF Reading, Invoke, StartWorkflow, SignalWorkflow, CancelWorkflow,
       TerminateWorkflow, CreateNamespaceCall, ListNamespacesCall, DescribeWorkflow,
       ListWorkflows, May
  <2>4. PICK m : IsAsk(c, m) /\ Send(c, m)
    BY <2>3 DEF GetWorkflowHistory, IsAsk
  <2>5. PICK was : /\ job' = [job EXCEPT ![c].was = was]
                   /\ was = job[c].was \/ was = DOMAIN Read(c)
    BY <2>3 DEF GetWorkflowHistory, Read
  <2>6. /\ job'[c].got = job[c].got /\ job'[c].token = job[c].token /\ job'[c].was = was
        /\ job'[c].handle = job[c].handle
    BY <2>5 DEF SendsInv, JobInv, JobColumns
  <2>7. HistoryRun(c)' = HistoryRun(c) /\ Read(c)' = Read(c)
    BY <1>2, <2>0, <2>2, <2>6 DEF HistoryRun, RunOf, Read, HistoryOf
  <2>8. Holds(c)
    BY <2>2 DEF ReadsInv, ReadInv, ReadHas
  <2>9. Holds(c)'
    <3>1. DOMAIN Read(c) = 1 .. Len(Read(c))
      BY <2>8, TableIs DEF Holds, Begins
    <3>2. job'[c].was \subseteq 1 .. Len(Read(c))
      BY <2>5, <2>6, <2>8, <3>1 DEF Holds
    <3>3. /\ Begins(job'[c].got, Read(c))
          /\ job'[c].token = IF job'[c].got = << >> THEN << >> ELSE <<Len(job'[c].got)>>
      BY <2>6, <2>8 DEF Holds
    <3> QED
      BY <2>7, <3>2, <3>3 DEF Holds
  <2>10. /\ stream'[c].st = "open" /\ stream'[c].k = m.k /\ net' = net \cup {m}
    BY <2>4 DEF Send, SendsInv, StreamInv, StreamColumns
  <2>11. Asks(c, m)'
    <3>1. Slot(m)' = Slot(m)
      BY DEF Slot
    <3>2. /\ m.rpc = "GetHistory" /\ m.run = HistoryRun(c) /\ m.token = job[c].token /\ m.page = 0
          /\ Slot(m) = <<NamespaceOrDefault(Options[c].ns), Doing(c).wf>>
      BY <2>3, <2>4, AskIs
    <3> QED
      BY <2>2, <2>6, <2>7, <3>1, <3>2 DEF Asks
  <2>12. ASSUME NEW n \in net', n.c = c, n.k = m.k PROVE n = m
    <3>1. n \in net => n.k <= stream[c].k /\ stream[c].k \in Nat
      BY <2>12 DEF SendsInv, NetInv, StreamInv
    <3>2. \/ m.k = stream[c].k + 1
          \/ m.k = stream[c].k /\ \A x \in net : ~(x.c = c /\ x.k = stream[c].k)
      BY <2>4, AskIs
    <3> QED
      BY <2>10, <2>12, <3>1, <3>2
  <2>13. Awaits(c)'
    BY <2>10, <2>11, <2>12 DEF Awaits
  <2>14. Heard(c)'
    BY <2>10 DEF Heard
  <2> QED
    BY <1>7, <2>9, <2>13, <2>14
<1> QED
  BY <1>6, <1>7

(* The page that answers a request of the call.                            *)
PageFor(d, events, token) ==
    \E size \in Nat \ {0} :
        /\ events = HistoryRows(Read(d), Len(job[d].got), size)
        /\ token = IF Len(events) = size THEN <<Len(job[d].got) + size>> ELSE << >>

LEMMA PageIs ==
    ASSUME NEW d, Holds(d), NEW events, NEW token, PageFor(d, events, token)
    PROVE  IsPage(d, events, token)
<1>1. PICK size \in Nat \ {0} :
        /\ events = HistoryRows(Read(d), Len(job[d].got), size)
        /\ token = IF Len(events) = size THEN <<Len(job[d].got) + size>> ELSE << >>
  BY DEF PageFor
<1>2. PICK got, h, all : got = job[d].got /\ h = Read(d) /\ all = got \o events
  OBVIOUS
<1>3. Begins(got, h)
  BY <1>2 DEF Holds
<1>4. /\ IsTable(events) /\ Begins(all, h) /\ Len(all) = Len(got) + Len(events)
      /\ Len(events) # size => Len(all) = Len(h)
  <2>1. events = HistoryRows(h, Len(got), size)
    BY <1>1, <1>2
  <2>2. LET rows == HistoryRows(h, Len(got), size)
        IN  /\ IsTable(rows) /\ Begins(got \o rows, h)
            /\ Len(got \o rows) = Len(got) + Len(rows)
            /\ Len(rows) # size => Len(got \o rows) = Len(h)
    BY <1>3, PageFollows
  <2> QED
    BY <1>2, <2>1, <2>2
<1>5. CASE Len(events) = size
  <2>1. token = <<Len(all)>> /\ token # << >> /\ Len(events) > 0
    BY <1>1, <1>2, <1>4, <1>5
  <2> QED
    BY <1>2, <1>4, <2>1 DEF IsPage
<1>6. CASE Len(events) # size
  <2>1. token = << >> /\ job[d].was \subseteq 1 .. Len(all)
    BY <1>1, <1>2, <1>4, <1>6 DEF Holds
  <2> QED
    BY <1>2, <1>4, <2>1 DEF IsPage
<1> QED
  BY <1>5, <1>6

LEMMA HistoryServes ==
    ASSUME NEW d, Holds(d), NEW m, Asks(d, m), GetWorkflowExecutionHistory(m), IsTable(execs)
    PROVE  \E events, token, val :
              /\ PageFor(d, events, token) /\ Answer(m, "OK", val)
              /\ val.events = events /\ val.token = token
<1>1. PICK size, after, rows, val :
        /\ size = PageSize(m, DefaultHistoryPageSize)
        /\ after = IF m.token = << >> THEN 0 ELSE m.token[1]
        /\ rows = IF m.run \in DOMAIN execs /\ execs[m.run].slot = Slot(m)
                  THEN HistoryRows(execs[m.run].hist, after, size) ELSE << >>
        /\ val = [NoValue EXCEPT !.events = rows,
                    !.token = IF Len(rows) = size THEN <<after + size>> ELSE << >>]
        /\ Answer(m, "OK", val)
  BY DEF GetWorkflowExecutionHistory
<1>2. size \in Nat \ {0}
  BY <1>1, FrontendAssumption DEF PageSize, Asks
<1>3. IsTable(job[d].got) /\ Len(job[d].got) \in Nat
  BY TableIs DEF Holds, Begins
<1>4. after = Len(job[d].got)
  <2>1. m.token = IF job[d].got = << >> THEN << >> ELSE <<Len(job[d].got)>>
    BY DEF Holds, Asks
  <2> QED
    BY <1>1, <2>1
<1>5. /\ val.events = rows
      /\ val.token = IF Len(rows) = size THEN <<after + size>> ELSE << >>
  BY <1>1 DEF NoValue
<1>6. rows = HistoryRows(Read(d), after, size)
  <2>1. CASE m.run \in DOMAIN execs /\ execs[m.run].slot = Slot(m)
    <3>1. Read(d) = execs[m.run].hist
      BY <2>1 DEF Asks, Read, HistoryOf
    <3> QED
      BY <1>1, <2>1, <3>1
  <2>2. CASE ~(m.run \in DOMAIN execs /\ execs[m.run].slot = Slot(m))
    <3>1. Read(d) = << >> /\ rows = << >>
      BY <1>1, <2>2 DEF Asks, Read, HistoryOf
    <3>2. Len(job[d].got) = 0
      BY <1>3, <3>1 DEF Holds, Begins
    <3>3. SubSeq(<< >>, 1, 0) = << >>
      BY SubSeqEmpty
    <3>4. HistoryRows(<< >>, 0, size) = << >>
      BY <1>2, <3>3 DEF HistoryRows
    <3> QED
      BY <1>4, <3>1, <3>2, <3>4
  <2> QED
    BY <2>1, <2>2
<1>7. PageFor(d, rows, val.token)
  BY <1>2, <1>4, <1>5, <1>6 DEF PageFor
<1> QED
  BY <1>1, <1>5, <1>7

LEMMA ServeReads ==
    ASSUME RunsInv, SendsInv, SendsInv', ReadsInv, NEW m \in net, Serve(m)
    PROVE  ReadsInv'
<1>1. Handle(m) /\ UNCHANGED <<script, job, log>>
  BY DEF Serve
<1>2. HistInv /\ HistInv' /\ StreamInv /\ IsTable(execs)
  BY DEF SendsInv, RunsInv
<1>3. Longer(execs, execs')
  BY <1>1, <1>2, HandleLonger
<1>4. ReadLogInv'
  BY <1>1, <1>2, <1>3, ReadLogKept DEF ReadsInv
<1> SUFFICES ASSUME NEW d \in Client PROVE ReadHas(d)'
  BY <1>4 DEF ReadsInv, ReadInv
<1>5. SteadyJob(d)
  BY <1>1 DEF SteadyJob
<1>6. ReadHas(d)
  BY DEF ReadsInv, ReadInv
<1>7. PICK code, val : Answer(m, code, val) /\ (Refuse(m) => code # "OK")
  <2>1. CASE Refuse(m)
    BY <2>1 DEF Refuse
  <2> QED
    BY <1>1, <2>1 DEF Handle, Missing, ConflictsOut, StartReplayed, StartRefused,
       StartWorkflowExecution, SignalWorkflowExecution, RequestCancelWorkflowExecution,
       WakeWorkflowExecution, TerminateWorkflowExecution, CreateNamespace, ListNamespaces,
       DescribeWorkflowExecution, GetWorkflowExecutionHistory, ListWorkflowExecutions
<1>8. net' = net \ {m} /\ Hears(m, code)
  BY <1>2, <1>7, AnswerIs
<1>9. CASE stream'[d] = stream[d]
  BY <1>2, <1>3, <1>5, <1>6, <1>8, <1>9, ReaderWaits
<1>10. CASE /\ d = m.c /\ stream[d].k = m.k /\ stream[d].st = "open"
            /\ stream'[d].st = "answered"
  <2>0. Describing(d)' => Fresh(job[d])'
    BY <1>1, <1>6 DEF Describing, Busy, Doing, ReadHas, Fresh
  <2> SUFFICES ASSUME Reading(d) PROVE Holds(d)' /\ Awaits(d)' /\ Heard(d)'
    BY <1>5, <2>0 DEF SteadyJob, Reading, Busy, Doing, ReadHas
  <2>1. Asks(d, m) /\ Holds(d)
    BY <1>6, <1>10 DEF Awaits, ReadHas
  <2>2. Refuse(m) \/ GetWorkflowExecutionHistory(m)
    BY <1>1, <2>1 DEF Asks, Handle, Missing, ConflictsOut, StartReplayed, StartRefused,
       StartWorkflowExecution, SignalWorkflowExecution, RequestCancelWorkflowExecution,
       WakeWorkflowExecution, TerminateWorkflowExecution, CreateNamespace, ListNamespaces,
       DescribeWorkflowExecution, ListWorkflowExecutions
  <2>3. Holds(d)'
    BY <1>2, <1>3, <1>5, <2>1, HoldsOn
  <2>4. Awaits(d)'
    BY <1>10 DEF Awaits
  <2>5. CASE Refuse(m)
    <3>1. code # "OK"
      BY <1>7, <2>5
    <3>2. stream'[d].code = code
      BY <1>7, <1>10 DEF Answer, StreamInv, StreamColumns, SendsInv
    <3> QED
      BY <2>3, <2>4, <3>1, <3>2 DEF Heard
  <2>6. CASE GetWorkflowExecutionHistory(m)
    <3>1. PICK events, token, v :
             /\ PageFor(d, events, token) /\ Answer(m, "OK", v)
             /\ v.events = events /\ v.token = token
      BY <1>2, <2>1, <2>6, HistoryServes
    <3>2. IsPage(d, events, token)
      BY <2>1, <3>1, PageIs
    <3>3. IsPage(d, events, token)'
      BY <1>2, <1>3, <1>5, <2>1, <3>2, HoldsOn
    <3>4. stream'[d].val = v
      BY <1>10, <3>1 DEF Answer, StreamInv, StreamColumns, SendsInv
    <3> QED
      BY <2>3, <2>4, <3>1, <3>3, <3>4 DEF Heard
  <2> QED
    BY <2>2, <2>5, <2>6
<1> QED
  BY <1>8, <1>9, <1>10 DEF Hears

LEMMA OthersRead ==
    ASSUME SendsInv, SendsInv', ReadsInv, Longer(execs, execs'), net' \subseteq net,
           UNCHANGED <<script, log, job>>,
           \A d \in Client : \/ stream'[d] = stream[d]
                             \/ stream'[d].st = "answered" /\ stream'[d].code = "Unavailable"
    PROVE  ReadsInv'
<1>1. HistInv'
  BY DEF SendsInv
<1>2. ReadLogInv'
  BY <1>1, ReadLogKept DEF ReadsInv
<1> SUFFICES ASSUME NEW d \in Client PROVE ReadHas(d)'
  BY <1>2 DEF ReadsInv, ReadInv
<1>3. SteadyJob(d) /\ ReadHas(d)
  BY DEF SteadyJob, ReadsInv, ReadInv
<1>4. \/ stream'[d] = stream[d] /\ \A m \in net' : m.c = d => m \in net
      \/ stream'[d].st = "answered" /\ stream'[d].code # "OK"
  OBVIOUS
<1> QED
  BY <1>1, <1>3, <1>4, ReaderWaits

LEMMA NetworkReads ==
    ASSUME SendsInv, SendsInv', ReadsInv, \/ \E c \in Client : OutcomeUnknown(c)
                                          \/ \E m \in net : RequestLost(m)
    PROVE  ReadsInv'
<1>1. execs' = execs /\ net' \subseteq net /\ UNCHANGED <<script, log, job>>
  BY DEF OutcomeUnknown, RequestLost
<1>2. \A d \in Client : \/ stream'[d] = stream[d]
                        \/ stream'[d].st = "answered" /\ stream'[d].code = "Unavailable"
  BY NetworkFaults
<1>3. Longer(execs, execs')
  BY <1>1, SameLonger DEF SendsInv
<1> QED
  BY <1>1, <1>2, <1>3, OthersRead

LEMMA WorkerReads ==
    ASSUME RunsInv, SendsInv, SendsInv', ReadsInv, NEW r \in DOMAIN execs, Worker(r)
    PROVE  ReadsInv'
<1>1. Longer(execs, execs')
  BY WorkLonger DEF Worker, SendsInv
<1>2. UNCHANGED <<net, stream, script, log, job>>
  BY DEF Worker, Work, WorkflowTaskProgress, WorkflowCompletes, WorkflowFails, CloseBy,
     ContinueWorkflowAsNew
<1> QED
  BY <1>1, <1>2, OthersRead

LEMMA NewJobReads ==
    ASSUME HistInv', NEW c, NEW n, NEW handle, job'[c] = NewJob(n, handle)
    PROVE  Holds(c)' /\ Fresh(job[c])'
<1>1. job'[c].got = << >> /\ job'[c].token = << >> /\ job'[c].was = {}
  <2>1. PICK row : row = NewJob(n, handle)
    OBVIOUS
  <2>2. row.got = << >> /\ row.token = << >> /\ row.was = {}
    BY <2>1 DEF NewJob
  <2> QED
    BY <2>1, <2>2
<1>2. IsTable(Read(c)')
  <2>1. Read(c)' = << >> \/ \E x \in DOMAIN execs' : Read(c)' = execs'[x].hist
    BY DEF Read, HistoryOf
  <2>2. IsTable(<< >>)
    BY DEF IsTable
  <2> QED
    BY <2>1, <2>2 DEF HistInv
<1> QED
  BY <1>1, <1>2, BeginsSelf DEF Holds, Fresh

(* What a call has when it goes on, or when it ends well.                  *)
ReadBy(c, j) == HistoryOf(c, IF Doing(c).do = "get" THEN j.settled ELSE RunOf(c))

MayHold(c, j) ==
    /\ Doing(c).do = "get" /\ j.stage = "describe" => Fresh(j)
    /\ Doing(c).do = "history" \/ (Doing(c).do = "get" /\ j.stage = "fetch") =>
          /\ Begins(j.got, ReadBy(c, j))
          /\ j.token = IF j.got = << >> THEN << >> ELSE <<Len(j.got)>>
          /\ j.was \subseteq 1 .. Len(ReadBy(c, j))

MayReport(c, code, j) ==
    Doing(c).do = "history" /\ code = "OK" =>
        Begins(j.got, Read(c)) /\ j.was \subseteq 1 .. Len(j.got)

LEMMA OtherReaders ==
    ASSUME SendsInv, SendsInv', ReadsInv, NEW c \in Client, Closed(c), Rest,
           \A d \in Client \ {c} : job'[d] = job[d],
           Reading(c)' => Holds(c)', Describing(c)' => Fresh(job[c])'
    PROVE  ReadInv' /\ Longer(execs, execs') /\ HistInv'
<1>1. HistInv /\ HistInv' /\ execs' = execs /\ script' = script /\ net' = net
  BY DEF SendsInv, Rest
<1>2. Longer(execs, execs')
  BY <1>1, SameLonger
<1> SUFFICES ASSUME NEW d \in Client PROVE ReadHas(d)'
  BY <1>1, <1>2 DEF ReadInv
<1>3. CASE d = c
  <2>1. stream'[c].st = "closed"
    BY ClosedIs
  <2> QED
    BY <1>3, <2>1 DEF Awaits, Heard, ReadHas
<1>4. CASE d # c
  <2>1. SteadyJob(d) /\ stream'[d] = stream[d] /\ \A m \in net' : m.c = d => m \in net
    BY <1>1, <1>4, ClosedIs DEF SteadyJob
  <2>2. ReadHas(d)
    BY DEF ReadsInv, ReadInv
  <2> QED
    BY <1>1, <1>2, <2>1, <2>2, ReaderWaits
<1> QED
  BY <1>3, <1>4

LEMMA TurnReads ==
    ASSUME SendsInv, SendsInv', ReadsInv, NEW c \in Client, NEW j, j.at = job[c].at,
           j.handle = job[c].handle, MayHold(c, j), Continue(c, j)
    PROVE  ReadsInv'
<1>1. /\ Closed(c) /\ Rest /\ log' = log /\ script' = script /\ job'[c] = j /\ execs' = execs
      /\ \A d \in Client \ {c} : job'[d] = job[d]
  BY DEF Continue, SendsInv, JobInv, Rest
<1>2. /\ Read(c)' = ReadBy(c, j) /\ Doing(c)' = Doing(c)
      /\ Reading(c)' => Doing(c).do = "history" \/ (Doing(c).do = "get" /\ j.stage = "fetch")
      /\ Describing(c)' => Doing(c).do = "get" /\ j.stage = "describe"
  BY <1>1 DEF Reading, Describing, Busy, Doing, Read, ReadBy, HistoryRun, RunOf, HistoryOf
<1>3. (Reading(c)' => Holds(c)') /\ (Describing(c)' => Fresh(job[c])')
  BY <1>1, <1>2 DEF MayHold, Holds, Fresh
<1>4. ReadInv' /\ Longer(execs, execs') /\ HistInv'
  BY <1>1, <1>3, OtherReaders
<1>5. ReadLogInv'
  BY <1>1, <1>4, ReadLogKept DEF ReadsInv
<1> QED
  BY <1>4, <1>5 DEF ReadsInv

LEMMA NoRunIsNone == RunsInv => NoRun \notin DOMAIN execs
BY TableIs DEF RunsInv, NoRun

LEMMA TableAt == HistInv => \A r : IsTable(HistoryAt(r))
<1>1. IsTable(<< >>)
  BY DEF IsTable
<1> QED
  BY <1>1 DEF HistInv, HistoryAt

LEMMA FinishReads ==
    ASSUME RunsInv, SendsInv, SendsInv', ReadsInv, NEW c \in Client, Busy(c),
           NEW code, NEW j, NEW handle, j.handle = job[c].handle,
           MayReport(c, code, j), Finish(c, code, j, handle)
    PROVE  ReadsInv'
<1>1. PICK n : /\ job' = [job EXCEPT ![c] = NewJob(n, handle)]
               /\ Closed(c) /\ Rest
  BY DEF Finish
<1>2. /\ job'[c] = NewJob(n, handle) /\ \A d \in Client \ {c} : job'[d] = job[d]
      /\ script' = script /\ execs' = execs /\ HistInv'
  BY <1>1 DEF SendsInv, JobInv, Rest
<1>3. Holds(c)' /\ Fresh(job[c])'
  BY <1>2, NewJobReads
<1>4. ReadInv'
  BY <1>1, <1>2, <1>3, OtherReaders
<1>5. PICK e : /\ e.code = code /\ e.got = j.got /\ e.was = j.was /\ e.handle = j.handle
               /\ log' = [log EXCEPT ![c] = Append(log[c], e)]
  BY DEF Finish
<1>6. /\ \A d \in Client \ {c} : log'[d] = log[d]
      /\ log'[c] = Append(log[c], e) /\ IsTable(log[c])
      /\ job[c].at = Len(log[c]) + 1
  BY <1>5 DEF SendsInv, JobInv
<1>7. /\ \A i \in DOMAIN log'[c] : i \in DOMAIN log[c] \/ i = Len(log[c]) + 1
      /\ \A i \in DOMAIN log[c] : log'[c][i] = log[c][i]
      /\ log'[c][Len(log[c]) + 1] = e
  <2>1. PICK s : s = Append(log[c], e)
    OBVIOUS
  <2>2. /\ IsTable(s) /\ Len(s) = Len(log[c]) + 1
        /\ \A i \in 1 .. Len(log[c]) : s[i] = log[c][i]
        /\ s[Len(log[c]) + 1] = e
    BY <1>6, <2>1, TableAppend
  <2>3. /\ DOMAIN s = 1 .. (Len(log[c]) + 1)
        /\ DOMAIN log[c] = 1 .. Len(log[c]) /\ Len(log[c]) \in Nat
    BY <1>6, <2>2, TableIs
  <2> QED
    BY <1>6, <2>1, <2>2, <2>3
<1>8. ReadLogInv'
  <2> SUFFICES ASSUME NEW d \in Client, NEW i \in DOMAIN log'[d],
                      script[d][i].do = "history", log'[d][i].code = "OK"
               PROVE  /\ Begins(log'[d][i].got, HistoryAt(log'[d][i].handle))
                      /\ log'[d][i].was \subseteq 1 .. Len(log'[d][i].got)
    BY <1>2 DEF ReadLogInv, HistoryAt
  <2>1. CASE d # c \/ i \in DOMAIN log[c]
    <3>1. i \in DOMAIN log[d] /\ log'[d][i] = log[d][i]
      BY <1>6, <1>7, <2>1
    <3> QED
      BY <3>1 DEF ReadsInv, ReadLogInv
  <2>2. CASE d = c /\ i \notin DOMAIN log[c]
    <3>1. i = job[c].at /\ log'[c][i] = e
      BY <1>6, <1>7, <2>2
    <3>2. Doing(c).do = "history" /\ code = "OK"
      BY <1>5, <2>2, <3>1 DEF Doing
    <3>3. Begins(j.got, Read(c)) /\ j.was \subseteq 1 .. Len(j.got)
      BY <3>2 DEF MayReport
    <3>4. Begins(j.got, HistoryAt(job[c].handle))
      <4>1. Read(c) = << >> \/ Read(c) = HistoryAt(job[c].handle)
        BY <3>2, NoRunIsNone DEF Read, HistoryOf, HistoryRun, RunOf, HistoryAt
      <4>2. IsTable(HistoryAt(job[c].handle))
        BY TableAt DEF SendsInv
      <4>3. Begins(<< >>, HistoryAt(job[c].handle))
        BY <4>2, BeginsSelf
      <4> QED
        BY <3>3, <4>1, <4>3, BeginsThrough
    <3> QED
      BY <1>5, <2>2, <3>1, <3>3, <3>4
  <2> QED
    BY <2>1, <2>2
<1> QED
  BY <1>4, <1>8 DEF ReadsInv

LEMMA HistoryTable == HistInv => \A c, r : IsTable(HistoryOf(c, r))
<1>1. IsTable(<< >>)
  BY DEF IsTable
<1> QED
  BY <1>1 DEF HistInv, HistoryOf

LEMMA ReturnReads ==
    ASSUME RunsInv, SendsInv, SendsInv', ReadsInv, NEW c \in Client, Return(c)
    PROVE  ReadsInv'
<1>1. Busy(c) /\ stream[c].st = "answered" /\ JobColumns \subseteq DOMAIN job[c]
  BY DEF Return, CallReturns, GetDescribed, HistoryPaged, ListPaged, CallFails, CallAgain,
     Back, SendsInv, JobInv
<1>2. ASSUME NEW j, j.at = job[c].at, j.handle = job[c].handle, MayHold(c, j), Continue(c, j)
      PROVE  ReadsInv'
  BY <1>2, TurnReads
<1>3. ASSUME NEW code, NEW j, NEW handle, j.handle = job[c].handle, MayReport(c, code, j),
             Finish(c, code, j, handle)
      PROVE  ReadsInv'
  BY <1>1, <1>3, FinishReads
<1>4. ReadHas(c)
  BY DEF ReadsInv, ReadInv
<1>5. \A r : IsTable(HistoryOf(c, r)) /\ Begins(<< >>, HistoryOf(c, r))
  BY HistoryTable, BeginsSelf DEF SendsInv
<1>6. ASSUME Doing(c).do \notin {"history", "get"}
      PROVE  \A code, j : MayHold(c, j) /\ MayReport(c, code, j)
  BY <1>6 DEF MayHold, MayReport
<1>7. CASE CallReturns(c)
  <2>1. Doing(c).do \notin {"history", "get"}
    BY <1>7 DEF CallReturns, Back
  <2>2. PICK j, handle : /\ j = [job[c] EXCEPT !.settled = stream[c].val.run]
                         /\ Finish(c, stream[c].code, j, handle)
    BY <1>7 DEF CallReturns, Answered
  <2>3. j.handle = job[c].handle
    BY <1>1, <2>2 DEF JobColumns
  <2> QED
    BY <1>3, <1>6, <2>1, <2>2, <2>3
<1>8. CASE GetDescribed(c)
  <2>1. Describing(c) /\ Doing(c).do = "get" /\ job[c].stage = "describe" /\ Fresh(job[c])
    BY <1>1, <1>4, <1>8 DEF GetDescribed, Back, Describing, ReadHas
  <2>2. PICK j : j = [job[c] EXCEPT !.settled = stream[c].val.run,
                                    !.status = stream[c].val.status]
    OBVIOUS
  <2>3. /\ JobColumns \subseteq DOMAIN j /\ j.at = job[c].at /\ j.handle = job[c].handle
        /\ j.got = job[c].got /\ j.token = job[c].token /\ j.was = job[c].was
    BY <1>1, <2>2 DEF JobColumns
  <2>4. PICK t : t = [j EXCEPT !.stage = "fetch"]
    OBVIOUS
  <2>5. \/ Continue(c, t)
        \/ Finish(c, "Unsuccessful", j, stream[c].val.run)
        \/ \E v : Continue(c, [job[c] EXCEPT !.run = v])
    BY <1>8, <2>2, <2>4 DEF GetDescribed
  <2>6. /\ t.at = job[c].at /\ t.handle = job[c].handle /\ t.stage = "fetch" /\ Fresh(t)
    BY <2>1, <2>3, <2>4 DEF JobColumns, Fresh
  <2>7. CASE Continue(c, t)
    <3>1. MayHold(c, t)
      BY <1>5, <2>1, <2>6 DEF MayHold, ReadBy, Fresh
    <3> QED
      BY <1>2, <2>6, <2>7, <3>1
  <2>8. CASE \E v : Continue(c, [job[c] EXCEPT !.run = v])
    <3>1. PICK v, u : u = [job[c] EXCEPT !.run = v] /\ Continue(c, u)
      BY <2>8
    <3>2. u.at = job[c].at /\ u.handle = job[c].handle /\ u.stage = "describe" /\ Fresh(u)
      BY <1>1, <2>1, <3>1 DEF JobColumns, Fresh
    <3>3. MayHold(c, u)
      BY <2>1, <3>2 DEF MayHold
    <3> QED
      BY <1>2, <3>1, <3>2, <3>3
  <2>9. CASE Finish(c, "Unsuccessful", j, stream[c].val.run)
    <3>1. MayReport(c, "Unsuccessful", j)
      BY DEF MayReport
    <3> QED
      BY <1>3, <2>3, <2>9, <3>1
  <2> QED
    BY <2>5, <2>7, <2>8, <2>9
<1>9. CASE HistoryPaged(c)
  <2>1. PICK events, token, j :
           /\ events = stream[c].val.events /\ token = stream[c].val.token
           /\ j = [job[c] EXCEPT !.got = job[c].got \o events, !.token = token]
    OBVIOUS
  <2>2. \/ token # << >> /\ Continue(c, j)
        \/ token = << >> /\ \E code, handle : Finish(c, code, j, handle)
    BY <1>9, <2>1 DEF HistoryPaged, LastPage
  <2>3. stream[c].code = "OK" /\ Reading(c)
    BY <1>1, <1>9 DEF HistoryPaged, Answered, Back, Reading
  <2>4. /\ j.at = job[c].at /\ j.handle = job[c].handle /\ j.was = job[c].was
        /\ j.got = job[c].got \o events /\ j.token = token
        /\ j.stage = job[c].stage /\ j.settled = job[c].settled
    BY <1>1, <2>1 DEF JobColumns
  <2>5. /\ Begins(j.got, Read(c)) /\ job[c].was \subseteq 1 .. Len(Read(c))
        /\ IF token = << >> THEN job[c].was \subseteq 1 .. Len(j.got)
                            ELSE token = <<Len(j.got)>> /\ j.got # << >>
    <3>1. IsPage(c, events, token) /\ Holds(c)
      BY <1>1, <1>4, <2>1, <2>3 DEF Heard, ReadHas
    <3>2. IsTable(job[c].got) /\ IsTable(events)
      BY <3>1 DEF IsPage, Holds, Begins
    <3>3. Len(events) > 0 => j.got # << >>
      <4>1. Len(j.got) = Len(job[c].got) + Len(events) /\ Len(job[c].got) \in Nat
            /\ Len(events) \in Nat
        BY <2>4, <3>2, ConcatIs, TableIs
      <4> QED
        BY <4>1
    <3> QED
      BY <2>4, <3>1, <3>3 DEF IsPage, Holds
  <2>6. CASE token # << >>
    <3>1. ReadBy(c, j) = Read(c) /\ (Doing(c).do = "get" => j.stage = "fetch")
      BY <2>3, <2>4 DEF ReadBy, Read, HistoryRun, Reading
    <3>2. MayHold(c, j)
      BY <2>4, <2>5, <2>6, <3>1 DEF MayHold
    <3> QED
      BY <1>2, <2>2, <2>4, <2>6, <3>2
  <2>7. CASE token = << >>
    <3>1. \A code : MayReport(c, code, j)
      BY <2>4, <2>5, <2>7 DEF MayReport
    <3> QED
      BY <1>3, <2>2, <2>4, <2>7, <3>1
  <2> QED
    BY <2>6, <2>7
<1>10. CASE ListPaged(c)
  <2>1. Doing(c).do \notin {"history", "get"}
    BY <1>10 DEF ListPaged, Back
  <2>2. PICK j : j = [job[c] EXCEPT !.got = job[c].got \o stream[c].val.runs,
                                    !.token = stream[c].val.token]
    OBVIOUS
  <2>3. Continue(c, j) \/ \E code, handle : Finish(c, code, j, handle)
    BY <1>10, <2>2 DEF ListPaged
  <2>4. j.at = job[c].at /\ j.handle = job[c].handle
    BY <1>1, <2>2 DEF JobColumns
  <2> QED
    BY <1>2, <1>3, <1>6, <2>1, <2>3, <2>4
<1>11. CASE CallFails(c)
  <2>1. Finish(c, stream[c].code, job[c], job[c].handle) /\ stream[c].code # "OK"
    BY <1>11 DEF CallFails, Answered
  <2> QED
    BY <1>3, <2>1 DEF MayReport
<1>12. CASE CallAgain(c)
  <2>1. PICK sends, anew :
           /\ anew = [NewJob(job[c].at, job[c].handle) EXCEPT !.sends = sends]
           /\ \/ Continue(c, anew)
              \/ Doing(c).do = "list" /\ Continue(c, [job[c] EXCEPT !.sends = sends])
              \/ Finish(c, "Unavailable", job[c], job[c].handle)
    BY <1>12 DEF CallAgain
  <2>2. CASE Continue(c, anew)
    <3>1. /\ anew.at = job[c].at /\ anew.handle = job[c].handle
          /\ anew.stage = "describe" /\ Fresh(anew)
      BY <2>1 DEF NewJob, Fresh
    <3>2. MayHold(c, anew)
      BY <1>5, <3>1 DEF MayHold, ReadBy, Fresh
    <3> QED
      BY <1>2, <2>2, <3>1, <3>2
  <2>3. CASE Doing(c).do = "list" /\ Continue(c, [job[c] EXCEPT !.sends = sends])
    <3>1. PICK j : j = [job[c] EXCEPT !.sends = sends]
      OBVIOUS
    <3>2. j.at = job[c].at /\ j.handle = job[c].handle
      BY <1>1, <3>1 DEF JobColumns
    <3> QED
      BY <1>2, <1>6, <2>3, <3>1, <3>2
  <2>4. CASE Finish(c, "Unavailable", job[c], job[c].handle)
    BY <1>3, <2>4 DEF MayReport
  <2> QED
    BY <2>1, <2>2, <2>3, <2>4
<1> QED
  BY <1>7, <1>8, <1>9, <1>10, <1>11, <1>12 DEF Return

LEMMA ReadsInvStep == RunsInv /\ SendsInv /\ ReadsInv /\ [Next]_vars => ReadsInv'
<1> SUFFICES ASSUME RunsInv, SendsInv, ReadsInv, [Next]_vars PROVE ReadsInv'
  OBVIOUS
<1>1. SendsInv'
  BY SendsInvStep
<1>2. CASE Done \/ UNCHANGED vars
  <2>1. UNCHANGED <<execs, net, stream, script, log, job>>
    BY <1>2 DEF Done, vars
  <2>2. Longer(execs, execs')
    BY <2>1, SameLonger DEF SendsInv
  <2> QED
    BY <1>1, <2>1, <2>2, OthersRead
<1> QED
  BY <1>1, <1>2, InvokeReads, ReturnReads, ServeReads, NetworkReads, WorkerReads DEF Next

LEMMA ReadsInvInit == Init => ReadsInv
<1> SUFFICES ASSUME Init PROVE ReadsInv
  OBVIOUS
<1>1. execs = << >> /\ \A c \in Client : /\ stream[c].st = "closed" /\ log[c] = << >>
                                         /\ job[c] = NewJob(1, NoRun)
  BY DEF Init
<1>2. ASSUME NEW c \in Client PROVE ReadHas(c)
  <2>1. job[c].got = << >> /\ job[c].token = << >> /\ job[c].was = {}
    <3>1. PICK row : row = NewJob(1, NoRun)
      OBVIOUS
    <3>2. row.got = << >> /\ row.token = << >> /\ row.was = {}
      BY <3>1 DEF NewJob
    <3> QED
      BY <1>1, <3>1, <3>2
  <2>2. Read(c) = << >>
    BY <1>1 DEF Read, HistoryOf
  <2>3. IsTable(<< >>)
    BY DEF IsTable
  <2>4. Begins(job[c].got, Read(c))
    BY <2>1, <2>2, <2>3, BeginsSelf
  <2> QED
    BY <1>1, <2>1, <2>4 DEF Holds, Awaits, Heard, ReadHas, Fresh
<1>3. ReadLogInv
  BY <1>1 DEF ReadLogInv
<1> QED
  BY <1>2, <1>3 DEF ReadsInv, ReadInv

LEMMA ReadWhole == ReadsInv => HistoryReadWhole
<1> SUFFICES ASSUME ReadsInv, NEW c \in Client, NEW i \in Logged(c, "history"),
                    log[c][i].code = "OK",
                    NEW got, got = log[c][i].got, NEW h, h = HistoryAt(log[c][i].handle)
             PROVE  IsPrefix(got, h) /\ log[c][i].was \subseteq DOMAIN got
  BY DEF HistoryReadWhole, HistoryAt
<1>1. i \in DOMAIN log[c] /\ script[c][i].do = "history"
  BY DEF Logged
<1>2. Begins(got, h) /\ log[c][i].was \subseteq 1 .. Len(got)
  BY <1>1 DEF ReadsInv, ReadLogInv
<1>3. /\ Len(got) \in Nat /\ Len(h) \in Nat /\ Len(got) <= Len(h) /\ DOMAIN got = 1 .. Len(got)
      /\ \A n \in 1 .. Len(got) : got[n] = h[n]
  BY <1>2, TableIs DEF Begins
<1>4. SubSeq(got, 1, Len(got)) = SubSeq(h, 1, Len(got))
  <2>1. PICK n : n = Len(got) /\ n \in Nat
    BY <1>3
  <2>2. PICK s, t : s = SubSeq(got, 1, n) /\ t = SubSeq(h, 1, n)
    OBVIOUS
  <2> DEFINE S == {got[x] : x \in 1 .. n}
  <2>3. \A x \in 1 .. n : got[x] \in S /\ h[x] \in S
    BY <1>3, <2>1
  <2> HIDE DEF S
  <2>4. 1 \in Int /\ n \in Int
    BY <2>1
  <2>5. /\ s \in Seq(S) /\ Len(s) = IF 1 <= n THEN n - 1 + 1 ELSE 0
        /\ \A x \in 1 .. n - 1 + 1 : s[x] = got[1 + x - 1]
    BY <2>2, <2>3, <2>4, SubSeqProperties
  <2>6. /\ t \in Seq(S) /\ Len(t) = IF 1 <= n THEN n - 1 + 1 ELSE 0
        /\ \A x \in 1 .. n - 1 + 1 : t[x] = h[1 + x - 1]
    BY <2>2, <2>3, <2>4, SubSeqProperties
  <2>7. Len(s) = n /\ Len(t) = n /\ \A x \in 1 .. n : s[x] = got[x] /\ t[x] = h[x]
    BY <2>1, <2>5, <2>6
  <2>8. \A x \in 1 .. n : s[x] = t[x]
    BY <1>3, <2>1, <2>7
  <2>9. s = t
    BY <2>5, <2>6, <2>7, <2>8
  <2> QED
    BY <2>1, <2>2, <2>9
<1> QED
  BY <1>2, <1>3, <1>4 DEF IsPrefix

(* A history that was read to its end, page by page, while events are      *)
(* appended between the pages, is a prefix of the run's history, and has   *)
(* every event there was when the first page was asked for                 *)
(* (GetWorkflowHistory and the page tokens of ListHistoryEvents).          *)
THEOREM HistoriesAreReadWhole == Spec => []HistoryReadWhole
<1>1. Init => RunsInv /\ SendsInv /\ ReadsInv
  BY RunsInvInit, SendsInvInit, ReadsInvInit
<1>2. RunsInv /\ SendsInv /\ ReadsInv /\ [Next]_vars => (RunsInv /\ SendsInv /\ ReadsInv)'
  BY RunsInvStep, SendsInvStep, ReadsInvStep
<1>3. RunsInv /\ SendsInv /\ ReadsInv => HistoryReadWhole
  BY ReadWhole
<1> QED
  BY <1>1, <1>2, <1>3, PTL DEF Spec
-----------------------------------------------------------------------------
(* Rows in the order of a listing.                                         *)

(* Induction over the naturals, as a fact about the first exception.       *)
LEMMA FirstOf ==
    ASSUME NEW S, S \subseteq Nat, S # {}
    PROVE  \E n \in S : \A k \in S : n <= k
<1> DEFINE R == {ss \in Nat \X Nat : ss[1] < ss[2]}
<1>1. IsWellFoundedOn(R, Nat)
  BY NatLessThanWellFounded, Zenon DEF OpToRel
<1>2. PICK n \in S : \A k \in S : ~(<<k, n>> \in R)
  BY <1>1, WFMin
<1>3. ASSUME NEW k \in S PROVE n <= k
  <2>1. k < n => <<k, n>> \in R
    OBVIOUS
  <2> QED
    BY <1>2, <2>1
<1> QED
  BY <1>3

Keyed(r) == execs[r].start \in Nat /\ execs[r].slot[2] \in Nat

KeysInv == \A r \in DOMAIN execs : Keyed(r)

(* r comes before x in a listing: it started later.                        *)
Before(r, x) == RowLess(SortKey(x), SortKey(r))

LEMMA ListingOrder ==
    ASSUME RunsInv, KeysInv, NEW r \in DOMAIN execs, NEW x \in DOMAIN execs
    PROVE  /\ ~Before(r, r)
           /\ r # x => Before(r, x) \/ Before(x, r)
           /\ \A y \in DOMAIN execs : Before(r, x) /\ Before(x, y) => Before(r, y)
<1>1. DOMAIN execs \subseteq Nat
  BY TableIs DEF RunsInv
<1>2. ASSUME NEW y \in DOMAIN execs
      PROVE  SortKey(y)[1] \in Nat /\ SortKey(y)[2] \in Nat /\ SortKey(y)[3] = y /\ y \in Nat
  BY <1>1 DEF SortKey, KeysInv, Keyed
<1>3. ASSUME NEW a, NEW b, a \in DOMAIN execs, b \in DOMAIN execs
      PROVE  Before(a, b) <=> \/ SortKey(b)[1] < SortKey(a)[1]
                              \/ SortKey(b)[1] = SortKey(a)[1] /\ SortKey(b)[2] < SortKey(a)[2]
                              \/ SortKey(b)[1] = SortKey(a)[1] /\ SortKey(b)[2] = SortKey(a)[2] /\ b < a
  BY <1>2, <1>3 DEF Before, RowLess
<1> QED
  BY <1>2, <1>3

(* A set of rows has a last one.                                           *)
LEMMA LastRow ==
    ASSUME RunsInv, KeysInv
    PROVE  \A n \in Nat : \A rows \in SUBSET DOMAIN execs :
              IsFiniteSet(rows) /\ Cardinality(rows) = n + 1
                 => \E x \in rows : \A r \in rows \ {x} : Before(r, x)
<1> DEFINE Has(n) == \A rows \in SUBSET DOMAIN execs :
              IsFiniteSet(rows) /\ Cardinality(rows) = n + 1
                 => \E x \in rows : \A r \in rows \ {x} : Before(r, x)
           Bad == {n \in Nat : ~Has(n)}
<1>1. Has(0)
  BY FS_Singleton
<1>2. ASSUME NEW n \in Nat, Has(n) PROVE Has(n + 1)
  <2> SUFFICES ASSUME NEW rows \in SUBSET DOMAIN execs, IsFiniteSet(rows),
                      Cardinality(rows) = n + 2
               PROVE  \E x \in rows : \A r \in rows \ {x} : Before(r, x)
    OBVIOUS
  <2>1. PICK y \in rows : TRUE
    BY FS_EmptySet
  <2>2. IsFiniteSet(rows \ {y}) /\ Cardinality(rows \ {y}) = n + 1
    BY <2>1, FS_RemoveElement
  <2>3. PICK x \in rows \ {y} : \A r \in (rows \ {y}) \ {x} : Before(r, x)
    BY <1>2, <2>2
  <2>4. CASE Before(y, x)
    BY <2>3, <2>4
  <2>5. CASE ~Before(y, x)
    <3>1. Before(x, y)
      BY <2>1, <2>3, <2>5, ListingOrder
    <3>2. ASSUME NEW r \in rows \ {y} PROVE Before(r, y)
      <4>1. CASE r = x
        BY <3>1, <4>1
      <4>2. CASE r # x
        <5>1. Before(r, x)
          BY <2>3, <3>2, <4>2
        <5> QED
          BY <2>1, <2>3, <3>1, <3>2, <5>1, ListingOrder
      <4> QED
        BY <4>1, <4>2
    <3> QED
      BY <2>1, <3>2
  <2> QED
    BY <2>4, <2>5
<1> HIDE DEF Has
<1>3. CASE Bad # {}
  <2>1. PICK n \in Bad : \A k \in Bad : n <= k
    BY <1>3, FirstOf
  <2>2. n # 0 /\ n \in Nat
    BY <1>1, <2>1
  <2>3. PICK k \in Nat : n = k + 1
    BY <2>2
  <2>4. Has(k)
    BY <2>1, <2>3
  <2> QED
    BY <1>2, <2>1, <2>3, <2>4
<1>4. CASE Bad = {}
  BY <1>4 DEF Has
<1> QED
  BY <1>3, <1>4

InOrder(s) == \A i, j \in DOMAIN s : i < j => Before(s[i], s[j])

LEMMA RowsHaveAnOrder ==
    ASSUME RunsInv, KeysInv
    PROVE  \A n \in Nat : \A rows \in SUBSET DOMAIN execs :
              IsFiniteSet(rows) /\ Cardinality(rows) = n
                 => \E s \in [1 .. n -> rows] : InOrder(s)
<1> DEFINE Has(n) == \A rows \in SUBSET DOMAIN execs :
              IsFiniteSet(rows) /\ Cardinality(rows) = n
                 => \E s \in [1 .. n -> rows] : InOrder(s)
           Bad == {n \in Nat : ~Has(n)}
<1>1. Has(0)
  <2> SUFFICES ASSUME NEW rows PROVE \E s \in [1 .. 0 -> rows] : InOrder(s)
    OBVIOUS
  <2>1. PICK s : s = [i \in 1 .. 0 |-> 0]
    OBVIOUS
  <2>2. s \in [1 .. 0 -> rows] /\ InOrder(s)
    BY <2>1 DEF InOrder
  <2> QED
    BY <2>2
<1>2. ASSUME NEW n \in Nat, Has(n) PROVE Has(n + 1)
  <2> SUFFICES ASSUME NEW rows \in SUBSET DOMAIN execs, IsFiniteSet(rows),
                      Cardinality(rows) = n + 1
               PROVE  \E s \in [1 .. n + 1 -> rows] : InOrder(s)
    OBVIOUS
  <2>1. PICK x \in rows : \A r \in rows \ {x} : Before(r, x)
    BY LastRow
  <2>2. IsFiniteSet(rows \ {x}) /\ Cardinality(rows \ {x}) = n
    BY FS_RemoveElement
  <2>3. PICK s \in [1 .. n -> rows \ {x}] : InOrder(s)
    BY <1>2, <2>2
  <2>4. PICK t : t = [i \in 1 .. n + 1 |-> IF i = n + 1 THEN x ELSE s[i]]
    OBVIOUS
  <2>5. t \in [1 .. n + 1 -> rows] /\ \A i \in 1 .. n : t[i] \in rows \ {x} /\ t[i] = s[i]
    BY <2>3, <2>4
  <2>6. ASSUME NEW i \in 1 .. n + 1, NEW j \in 1 .. n + 1, i < j PROVE Before(t[i], t[j])
    <3>1. i \in 1 .. n
      BY <2>6
    <3>2. CASE j = n + 1
      BY <2>1, <2>4, <2>5, <3>1, <3>2
    <3>3. CASE j # n + 1
      <4>1. j \in 1 .. n
        BY <3>3
      <4> QED
        BY <2>3, <2>5, <2>6, <3>1, <4>1 DEF InOrder
    <3> QED
      BY <3>2, <3>3
  <2> QED
    BY <2>5, <2>6 DEF InOrder
<1> HIDE DEF Has
<1>3. CASE Bad # {}
  <2>1. PICK n \in Bad : \A k \in Bad : n <= k
    BY <1>3, FirstOf
  <2>2. n # 0 /\ n \in Nat
    BY <1>1, <2>1
  <2>3. PICK k \in Nat : n = k + 1
    BY <2>2
  <2>4. Has(k)
    BY <2>1, <2>3
  <2> QED
    BY <1>2, <2>1, <2>3, <2>4
<1>4. CASE Bad = {}
  BY <1>4 DEF Has
<1> QED
  BY <1>3, <1>4

(* The sort behind a listing has every row once, in order.                 *)
LEMMA ListedIs ==
    ASSUME RunsInv, KeysInv, NEW rows \in SUBSET DOMAIN execs
    PROVE  /\ Cardinality(rows) \in Nat
           /\ Listed(rows) \in [1 .. Cardinality(rows) -> rows]
           /\ InOrder(Listed(rows))
           /\ \A r \in rows : \E i \in 1 .. Cardinality(rows) : Listed(rows)[i] = r
<1>1. IsFiniteSet(rows) /\ Cardinality(rows) \in Nat
  <2>1. DOMAIN execs = 1 .. Len(execs) /\ Len(execs) \in Nat
    BY TableIs DEF RunsInv
  <2>2. IsFiniteSet(1 .. Len(execs))
    BY <2>1, FS_Interval
  <2> QED
    BY <2>1, <2>2, FS_Subset, FS_CardinalityType
<1>2. PICK n : n = Cardinality(rows) /\ n \in Nat
  BY <1>1
<1>3. PICK s : s = Listed(rows)
  OBVIOUS
<1>4. s \in [1 .. n -> rows] /\ InOrder(s)
  <2>1. \E t \in [1 .. n -> rows] : InOrder(t)
    BY <1>1, <1>2, RowsHaveAnOrder
  <2>2. s = CHOOSE t \in [1 .. n -> rows] : InOrder(t)
    BY <1>2, <1>3, Zenon DEF Listed, InOrder, Before
  <2> QED
    BY <2>1, <2>2
<1>5. s \in Injection(1 .. n, rows)
  <2>1. ASSUME NEW i \in 1 .. n, NEW j \in 1 .. n, s[i] = s[j] PROVE i = j
    <3>1. s[i] \in DOMAIN execs
      BY <1>4
    <3>2. ~Before(s[i], s[i])
      BY <3>1, ListingOrder
    <3>3. ~(i < j) /\ ~(j < i)
      BY <1>4, <2>1, <3>2 DEF InOrder
    <3> QED
      BY <1>2, <3>3
  <2> QED
    BY <1>4, <2>1 DEF Injection, IsInjective
<1>6. s \in Surjection(1 .. n, rows)
  <2>1. IsFiniteSet(1 .. n) /\ Cardinality(1 .. n) = n
    BY <1>2, FS_Interval
  <2> QED
    BY <1>1, <1>2, <1>5, <2>1, FS_Injection
<1> QED
  BY <1>1, <1>2, <1>3, <1>4, <1>6 DEF Surjection

-----------------------------------------------------------------------------
(* What becomes of a run's row.                                            *)

ClosedAt(h) == {i \in DOMAIN h : h[i].type \in ClosingEvents}

(* A row stays in its workflow, at its start and in its chain; its status  *)
(* changes with a closing event, never back to RUNNING, and to COMPLETED   *)
(* with a result.                                                          *)
RowOn(u, v) ==
    /\ v.slot = u.slot /\ v.start = u.start /\ v.from = u.from
    /\ ClosedAt(u.hist) \subseteq ClosedAt(v.hist)
    /\ ClosedAt(v.hist) = ClosedAt(u.hist) => v.status = u.status
    /\ v.status = "RUNNING" => u.status = "RUNNING"
    /\ v.status = "COMPLETED" => u.status = "COMPLETED" \/ HasResult(v.hist)

NewRow(row) == row.start \in Nat /\ row.slot[2] \in Nat /\ row.status = "RUNNING"

RowsOn(a, b) ==
    /\ DOMAIN a \subseteq DOMAIN b
    /\ \A x \in DOMAIN a : RowOn(a[x], b[x])
    /\ \A x \in DOMAIN b \ DOMAIN a : NewRow(b[x])

LEMMA RowStays == \A u : RowOn(u, u)
BY DEF RowOn

LEMMA RowOnThrough ==
    ASSUME NEW u, NEW v, NEW w, RowOn(u, v), RowOn(v, w), Begins(v.hist, w.hist)
    PROVE  RowOn(u, w)
<1>1. HasResult(v.hist) => HasResult(w.hist)
  <2>1. PICK s, t : s = v.hist /\ t = w.hist
    OBVIOUS
  <2>2. Begins(s, t) /\ DOMAIN s = 1 .. Len(s) /\ DOMAIN t = 1 .. Len(t) /\ Len(s) \in Nat /\ Len(t) \in Nat
    BY <2>1, TableIs DEF Begins
  <2>3. DOMAIN s \subseteq DOMAIN t /\ \A i \in DOMAIN s : t[i] = s[i]
    BY <2>2 DEF Begins
  <2> QED
    BY <2>1, <2>3 DEF HasResult
<1> QED
  BY <1>1 DEF RowOn

LEMMA LongerHistory ==
    ASSUME NEW h, IsTable(h), NEW evs, IsTable(evs), NEW g, g = h \o evs
    PROVE  /\ Len(g) = Len(h) + Len(evs) /\ \A i \in 1 .. Len(h) : g[i] = h[i]
           /\ \A i \in 1 .. Len(evs) : g[Len(h) + i] = evs[i]
           /\ DOMAIN g = 1 .. Len(g) /\ DOMAIN h = 1 .. Len(h)
           /\ Len(h) \in Nat /\ Len(evs) \in Nat
<1>1. /\ IsTable(h \o evs) /\ Len(h \o evs) = Len(h) + Len(evs)
      /\ \A i \in 1 .. Len(h) : (h \o evs)[i] = h[i]
      /\ \A j \in 1 .. Len(evs) : (h \o evs)[Len(h) + j] = evs[j]
  BY ConcatIs
<1>2. IsTable(g) /\ Len(g) = Len(h) + Len(evs)
  BY <1>1
<1>3. /\ DOMAIN g = 1 .. Len(g) /\ DOMAIN h = 1 .. Len(h)
      /\ Len(h) \in Nat /\ Len(evs) \in Nat
  BY <1>2, TableIs
<1>4. \A i \in 1 .. Len(h) : g[i] = h[i]
  BY <1>1
<1>5. \A i \in 1 .. Len(evs) : g[Len(h) + i] = evs[i]
  BY <1>1
<1> QED
  BY <1>2, <1>3, <1>4, <1>5

(* Events, such as a signal's, at the end of a history.                    *)
LEMMA RowAppended ==
    ASSUME NEW u, RunColumns \subseteq DOMAIN u, IsTable(u.hist), NEW evs, IsTable(evs), NEW due
    PROVE  RowOn(u, Appended(u, evs, due))
<1>1. PICK v : v = Appended(u, evs, due)
  OBVIOUS
<1>2. /\ v.slot = u.slot /\ v.start = u.start /\ v.from = u.from /\ v.status = u.status
      /\ v.hist = u.hist \o evs
  BY <1>1 DEF Appended, RunColumns
<1>3. PICK h, g : h = u.hist /\ g = v.hist
  OBVIOUS
<1>4. /\ Len(g) = Len(h) + Len(evs) /\ \A i \in 1 .. Len(h) : g[i] = h[i]
      /\ DOMAIN g = 1 .. Len(g) /\ DOMAIN h = 1 .. Len(h)
      /\ Len(h) \in Nat /\ Len(evs) \in Nat
  BY <1>2, <1>3, LongerHistory
<1>5. ClosedAt(h) \subseteq ClosedAt(g)
  BY <1>4 DEF ClosedAt
<1>6. RowOn(u, v)
  BY <1>2, <1>3, <1>5 DEF RowOn
<1> QED
  BY <1>1, <1>6

LEMMA RowClosed ==
    ASSUME NEW u, RunColumns \subseteq DOMAIN u, IsTable(u.hist), NEW e, NEW due, NEW st,
           e.type \in ClosingEvents, st # "RUNNING", st = "COMPLETED" => e.type = "Completed"
    PROVE  RowOn(u, [Appended(u, <<e>>, due) EXCEPT !.status = st])
<1>1. PICK a, v, evs : evs = <<e>> /\ a = Appended(u, evs, due) /\ v = [a EXCEPT !.status = st]
  OBVIOUS
<1>2. /\ a.slot = u.slot /\ a.start = u.start /\ a.from = u.from
      /\ a.hist = u.hist \o evs /\ RunColumns \subseteq DOMAIN a
  BY <1>1 DEF Appended, RunColumns
<1>3. /\ v.slot = u.slot /\ v.start = u.start /\ v.from = u.from /\ v.status = st
      /\ v.hist = u.hist \o evs
  BY <1>1, <1>2 DEF RunColumns
<1>4. PICK h, g : h = u.hist /\ g = v.hist
  OBVIOUS
<1>5. IsTable(evs) /\ Len(evs) = 1 /\ evs[1] = e
  BY <1>1, OneTable
<1>6. /\ Len(g) = Len(h) + 1 /\ \A i \in 1 .. Len(h) : g[i] = h[i]
      /\ g[Len(h) + 1] = e
      /\ DOMAIN g = 1 .. Len(g) /\ DOMAIN h = 1 .. Len(h) /\ Len(h) \in Nat
  <2>1. g = h \o evs /\ IsTable(h)
    BY <1>3, <1>4
  <2>0. IsTable(evs)
    BY <1>5
  <2>2. /\ Len(g) = Len(h) + Len(evs) /\ \A i \in 1 .. Len(h) : g[i] = h[i]
        /\ \A i \in 1 .. Len(evs) : g[Len(h) + i] = evs[i]
        /\ DOMAIN g = 1 .. Len(g) /\ DOMAIN h = 1 .. Len(h)
        /\ Len(h) \in Nat /\ Len(evs) \in Nat
    BY <2>0, <2>1, LongerHistory
  <2>3. 1 \in 1 .. Len(evs)
    BY <1>5
  <2>4. g[Len(h) + 1] = evs[1]
    BY <2>2, <2>3
  <2> QED
    BY <1>5, <2>2, <2>4
<1>7. Len(h) + 1 \in DOMAIN g /\ Len(h) + 1 \notin DOMAIN h
  BY <1>6
<1>8. ClosedAt(h) \subseteq ClosedAt(g) /\ ClosedAt(g) # ClosedAt(h)
  BY <1>6, <1>7 DEF ClosedAt
<1>9. st = "COMPLETED" => HasResult(g)
  BY <1>6, <1>7 DEF HasResult
<1>10. RowOn(u, v)
  BY <1>3, <1>4, <1>8, <1>9 DEF RowOn
<1> QED
  BY <1>1, <1>10

LEMMA UpdatedOn ==
    ASSUME RunsInv, NEW r \in DOMAIN execs, NEW v, RowOn(execs[r], v), NEW ex,
           ex = [execs EXCEPT ![r] = v]
    PROVE  RowsOn(execs, ex)
<1>1. DOMAIN ex = DOMAIN execs /\ ex[r] = v /\ \A x \in DOMAIN execs : x # r => ex[x] = execs[x]
  OBVIOUS
<1> QED
  BY <1>1, RowStays DEF RowsOn

LEMMA AddedOn ==
    ASSUME NEW a, NEW rows, IsTable(rows), RowsOn(a, rows), NEW row, NewRow(row)
    PROVE  RowsOn(a, Append(rows, row))
<1>1. PICK b : b = Append(rows, row)
  OBVIOUS
<1>2. /\ DOMAIN b = 1 .. Len(b) /\ Len(b) = Len(rows) + 1 /\ b[Len(rows) + 1] = row
      /\ DOMAIN rows = 1 .. Len(rows) /\ Len(rows) \in Nat
      /\ \A i \in 1 .. Len(rows) : b[i] = rows[i]
  BY <1>1, TableAppend, TableIs
<1>3. /\ DOMAIN rows \subseteq DOMAIN b
      /\ \A x \in DOMAIN b : (x \in DOMAIN rows /\ b[x] = rows[x]) \/ b[x] = row
  BY <1>2
<1> QED
  BY <1>1, <1>2, <1>3 DEF RowsOn

WfInv == \A m \in net : m.wf \in Nat

LEMMA NewRowIs ==
    ASSUME NEW slot, slot[2] \in Nat, NEW req, NEW from, NEW by, NEW t \in StartTimes
    PROVE  NewRow(NewRun(slot, req, from, by, t))
<1>1. t \in 0 .. limits.instants
  BY DEF StartTimes
<1>2. t \in Nat
  BY <1>1
<1> QED
  BY <1>2 DEF NewRow, NewRun

LEMMA HandleOn ==
    ASSUME RunsInv, HistInv, NEW m, m.wf \in Nat, Handle(m)
    PROVE  RowsOn(execs, execs')
<1>0. \A r \in DOMAIN execs : RunColumns \subseteq DOMAIN execs[r] /\ IsTable(execs[r].hist)
  BY DEF RunsInv, HistInv
<1>1. ASSUME NEW rpc, NEW type, WakeWorkflowExecution(m, rpc, type)
      PROVE  RowsOn(execs, execs')
  <2>1. PICK evs, r : /\ evs = <<Event(type, <<m.c, m.k>>), Event("TaskScheduled", Nobody)>>
                      /\ r = TargetRun(m)
    OBVIOUS
  <2>2. IsTable(evs) /\ r \in DOMAIN execs
    BY <1>1, <2>1, TupleTables DEF WakeWorkflowExecution, Found
  <2>3. PICK v : v = Appended(execs[r], evs, 1)
    OBVIOUS
  <2>4. execs' = [execs EXCEPT ![r] = v]
    BY <1>1, <2>1, <2>3 DEF WakeWorkflowExecution
  <2>5. RowOn(execs[r], v)
    BY <1>0, <2>2, <2>3, RowAppended
  <2> QED
    BY <2>2, <2>4, <2>5, UpdatedOn
<1>2. ASSUME TerminateWorkflowExecution(m) PROVE RowsOn(execs, execs')
  <2>1. PICK e, r, v : /\ e = Event("Terminated", <<m.c, m.k>>) /\ r = TargetRun(m)
                       /\ v = [Appended(execs[r], <<e>>, 0) EXCEPT !.status = "TERMINATED"]
    OBVIOUS
  <2>2. r \in DOMAIN execs /\ e.type \in ClosingEvents
    BY <1>2, <2>1 DEF TerminateWorkflowExecution, Found, Event, ClosingEvents
  <2>3. execs' = [execs EXCEPT ![r] = v]
    BY <1>2, <2>1 DEF TerminateWorkflowExecution
  <2>4. RowOn(execs[r], v)
    BY <1>0, <2>1, <2>2, RowClosed
  <2> QED
    BY <2>2, <2>3, <2>4, UpdatedOn
<1>3. ASSUME StartWorkflowExecution(m) PROVE RowsOn(execs, execs')
  <2>1. PICK t \in StartTimes :
           Create(execs, NewRun(Slot(m), RequestId(m), NoRun, <<m.c, m.k>>, t))
    BY <1>3 DEF StartWorkflowExecution
  <2>2. PICK row : row = NewRun(Slot(m), RequestId(m), NoRun, <<m.c, m.k>>, t)
    OBVIOUS
  <2>3. NewRow(row)
    <3>1. Slot(m)[2] \in Nat
      BY DEF Slot
    <3> QED
      BY <2>2, <3>1, NewRowIs
  <2>4. execs' = Append(execs, row)
    BY <2>1, <2>2 DEF Create
  <2>5. RowsOn(execs, execs) /\ IsTable(execs)
    BY RowStays DEF RowsOn, RunsInv
  <2> QED
    BY <2>3, <2>4, <2>5, AddedOn
<1>4. CASE \/ Refuse(m) \/ Missing(m) \/ ConflictsOut(m) \/ StartReplayed(m) \/ StartRefused(m)
           \/ CreateNamespace(m) \/ ListNamespaces(m) \/ DescribeWorkflowExecution(m)
           \/ GetWorkflowExecutionHistory(m) \/ ListWorkflowExecutions(m)
  <2>1. execs' = execs
    BY <1>4 DEF Refuse, Missing, ConflictsOut, StartReplayed, StartRefused, CreateNamespace,
       ListNamespaces, DescribeWorkflowExecution, GetWorkflowExecutionHistory,
       ListWorkflowExecutions, server
  <2> QED
    BY <2>1, RowStays DEF RowsOn
<1> QED
  BY <1>1, <1>2, <1>3, <1>4 DEF Handle, SignalWorkflowExecution, RequestCancelWorkflowExecution

LEMMA WorkOn ==
    ASSUME RunsInv, HistInv, KeysInv, NEW r \in DOMAIN execs, Work(r)
    PROVE  RowsOn(execs, execs')
<1>0. RunColumns \subseteq DOMAIN execs[r] /\ IsTable(execs[r].hist)
  BY DEF RunsInv, HistInv
<1>1. ASSUME NEW type \in {"Completed", "Failed"}, NEW status, status # "RUNNING",
             status = "COMPLETED" => type = "Completed", CloseBy(r, type, status)
      PROVE  RowsOn(execs, execs')
  <2>1. PICK e, v : /\ e = Event(type, Nobody)
                    /\ v = [Appended(execs[r], <<e>>, -1) EXCEPT !.status = status]
    OBVIOUS
  <2>2. e.type = type /\ type \in ClosingEvents
    BY <1>1, <2>1 DEF Event, ClosingEvents
  <2>3. execs' = [execs EXCEPT ![r] = v]
    BY <1>1, <2>1 DEF CloseBy
  <2>4. RowOn(execs[r], v)
    BY <1>0, <1>1, <2>1, <2>2, RowClosed
  <2> QED
    BY <2>3, <2>4, UpdatedOn
<1>2. ASSUME WorkflowTaskProgress(r) PROVE RowsOn(execs, execs')
  <2>1. PICK e, evs, v : /\ e = Event("TaskCompleted", Nobody) /\ evs = <<e>>
                         /\ v = Appended(execs[r], evs, 0)
    OBVIOUS
  <2>2. IsTable(evs)
    BY <2>1, OneTable
  <2>3. execs' = [execs EXCEPT ![r] = v]
    BY <1>2, <2>1 DEF WorkflowTaskProgress
  <2>4. RowOn(execs[r], v)
    BY <1>0, <2>1, <2>2, RowAppended
  <2> QED
    BY <2>3, <2>4, UpdatedOn
<1>3. ASSUME ContinueWorkflowAsNew(r) PROVE RowsOn(execs, execs')
  <2>1. PICK t \in StartTimes :
           Create(ContinuedRows(r), NewRun(execs[r].slot, ContinuedId(r), r, Nobody, t))
    BY <1>3 DEF ContinueWorkflowAsNew
  <2>2. PICK row, rows : /\ row = NewRun(execs[r].slot, ContinuedId(r), r, Nobody, t)
                         /\ rows = ContinuedRows(r)
    OBVIOUS
  <2>3. NewRow(row)
    BY <2>2, NewRowIs DEF KeysInv, Keyed
  <2>4. execs' = Append(rows, row)
    BY <2>1, <2>2 DEF Create
  <2>5. PICK e, v : /\ e = Event("ContinuedAsNew", Nobody)
                    /\ v = [Appended(execs[r], <<e>>, -1) EXCEPT !.status = "CONTINUED_AS_NEW"]
    OBVIOUS
  <2>6. e.type \in ClosingEvents
    BY <2>5 DEF Event, ClosingEvents
  <2>7. rows = [execs EXCEPT ![r] = v]
    BY <2>2, <2>5 DEF ContinuedRows
  <2>8. RowOn(execs[r], v)
    BY <1>0, <2>5, <2>6, RowClosed
  <2>9. RowsOn(execs, rows) /\ IsTable(rows)
    BY <2>7, <2>8, UpdatedOn, TableUpdate DEF RunsInv
  <2> QED
    BY <2>3, <2>4, <2>9, AddedOn
<1> QED
  BY <1>1, <1>2, <1>3 DEF Work, WorkflowCompletes, WorkflowFails

(* The columns that rows are sorted by are numbers: of the runs, and, as   *)
(* starts bring in a workflow id, of the scripts and the requests too.     *)
NumbersInv ==
    /\ KeysInv /\ WfInv
    /\ \A c \in Client : \A i \in DOMAIN script[c] :
          script[c][i].wf \in Nat /\ script[c][i].page \in Nat

LEMMA NumbersInvInit == Init => NumbersInv
<1> SUFFICES ASSUME Init PROVE NumbersInv
  OBVIOUS
<1>1. execs = << >> /\ net = {}
  BY DEF Init
<1>2. PICK s \in Scenarios : script = s.calls
  BY DEF Init
<1>3. ASSUME NEW c \in Client, NEW i \in DOMAIN script[c]
      PROVE  script[c][i].wf \in Nat /\ script[c][i].page \in Nat
  <2>0. \A d \in Client : \A n \in DOMAIN s.calls[d] :
           s.calls[d][n].wf \in WorkflowId \cup {0} /\ s.calls[d][n].page \in Nat
    BY ScenariosAssumption, Zenon
  <2>1. script[c][i].wf \in WorkflowId \cup {0} /\ script[c][i].page \in Nat
    BY <1>2, <2>0
  <2>2. \A w \in WorkflowId \cup {0} : w \in Nat
    <3>1. WorkflowId \subseteq Nat
      BY FrontendAssumption, Zenon
    <3> QED
      BY <3>1
  <2> QED
    BY <2>1, <2>2, Zenon
<1> QED
  BY <1>1, <1>3 DEF NumbersInv, KeysInv, WfInv

(* A request carries the workflow id of its call, or none.                 *)
LEMMA InvokeWf ==
    ASSUME NEW c \in Client, Invoke(c)
    PROVE  \E m : net' = net \cup {m} /\ (m.wf = Doing(c).wf \/ m.wf = 0) /\ Busy(c)
<1> DEFINE Sends(m) == /\ net' = net \cup {m} /\ (m.wf = Doing(c).wf \/ m.wf = 0) /\ Busy(c)
<1>1. ASSUME NEW rpc PROVE Outgoing(c, rpc).wf = 0 /\ {"wf", "token"} \subseteq DOMAIN Outgoing(c, rpc)
  BY DEF Outgoing, Request
<1>2. ASSUME StartWorkflow(c) PROVE \E m : Sends(m)
  <2>1. PICK o, m : /\ o = Outgoing(c, "Start")
                    /\ m = [o EXCEPT !.wf = Doing(c).wf, !.req = Doing(c).req,
                                     !.big = Doing(c).big]
    OBVIOUS
  <2> QED
    BY <1>1, <1>2, <2>1 DEF StartWorkflow, Send, May
<1>3. ASSUME SignalWorkflow(c) PROVE \E m : Sends(m)
  <2>1. PICK o, m : /\ o = Outgoing(c, "Signal")
                    /\ m = [o EXCEPT !.wf = Doing(c).wf, !.run = RunOf(c), !.big = Doing(c).big]
    OBVIOUS
  <2> QED
    BY <1>1, <1>3, <2>1 DEF SignalWorkflow, Send, May
<1>4. ASSUME CancelWorkflow(c) PROVE \E m : Sends(m)
  <2>1. PICK o, m : /\ o = Outgoing(c, "Cancel")
                    /\ m = [o EXCEPT !.wf = Doing(c).wf, !.run = RunOf(c)]
    OBVIOUS
  <2> QED
    BY <1>1, <1>4, <2>1 DEF CancelWorkflow, Send, May
<1>5. ASSUME TerminateWorkflow(c) PROVE \E m : Sends(m)
  <2>1. PICK o, m : /\ o = Outgoing(c, "Terminate")
                    /\ m = [o EXCEPT !.wf = Doing(c).wf, !.run = RunOf(c)]
    OBVIOUS
  <2> QED
    BY <1>1, <1>5, <2>1 DEF TerminateWorkflow, Send, May
<1>6. ASSUME CreateNamespaceCall(c) PROVE \E m : Sends(m)
  <2>1. PICK o, m : o = Outgoing(c, "CreateNamespace") /\ m = [o EXCEPT !.name = Doing(c).name]
    OBVIOUS
  <2> QED
    BY <1>1, <1>6, <2>1 DEF CreateNamespaceCall, Send, May
<1>7. ASSUME ListNamespacesCall(c) PROVE \E m : Sends(m)
  BY <1>1, <1>7 DEF ListNamespacesCall, Send, May
<1>8. ASSUME DescribeWorkflow(c) PROVE \E m : Sends(m)
  <2>1. PICK o, m, v : /\ o = Outgoing(c, "Describe")
                       /\ v = IF Doing(c).do = "get" THEN job[c].run ELSE RunOf(c)
                       /\ m = [o EXCEPT !.wf = Doing(c).wf, !.run = v]
    OBVIOUS
  <2> QED
    BY <1>1, <1>8, <2>1 DEF DescribeWorkflow, Send, May
<1>9. ASSUME GetWorkflowHistory(c) PROVE \E m : Sends(m)
  <2>1. PICK o, m : /\ o = Outgoing(c, "GetHistory")
                    /\ m = [o EXCEPT !.wf = Doing(c).wf, !.run = HistoryRun(c),
                                     !.token = job[c].token]
    OBVIOUS
  <2> QED
    BY <1>1, <1>9, <2>1 DEF GetWorkflowHistory, Send, May
<1>10. ASSUME ListWorkflows(c) PROVE \E m : Sends(m)
  <2>1. PICK o, m : /\ o = Outgoing(c, "List")
                    /\ m = [o EXCEPT !.filter = Doing(c).filter, !.page = Doing(c).page,
                                     !.token = job[c].token]
    OBVIOUS
  <2> QED
    BY <1>1, <1>10, <2>1 DEF ListWorkflows, Send, May
<1> QED
  BY <1>2, <1>3, <1>4, <1>5, <1>6, <1>7, <1>8, <1>9, <1>10 DEF Invoke

LEMMA KeysOn ==
    ASSUME KeysInv, RowsOn(execs, execs')
    PROVE  KeysInv'
<1> SUFFICES ASSUME NEW r \in DOMAIN execs' PROVE execs'[r].start \in Nat /\ execs'[r].slot[2] \in Nat
  BY DEF KeysInv, Keyed
<1>1. CASE r \in DOMAIN execs
  BY <1>1 DEF RowsOn, RowOn, KeysInv, Keyed
<1>2. CASE r \notin DOMAIN execs
  BY <1>2 DEF RowsOn, NewRow
<1> QED
  BY <1>1, <1>2

(* Every step carries the rows on.                                         *)
LEMMA NextOn ==
    ASSUME RunsInv, SendsInv, NumbersInv, [Next]_vars
    PROVE  RowsOn(execs, execs') /\ Longer(execs, execs')
<1>0. HistInv /\ KeysInv /\ WfInv
  BY DEF SendsInv, NumbersInv
<1>1. CASE execs' = execs
  BY <1>0, <1>1, RowStays, SameLonger DEF RowsOn
<1>2. CASE \E m \in net : Serve(m)
  <2>1. PICK m \in net : Handle(m)
    BY <1>2 DEF Serve
  <2> QED
    BY <1>0, <2>1, HandleOn, HandleLonger DEF WfInv
<1>3. CASE \E r \in DOMAIN execs : Worker(r)
  <2>1. PICK r \in DOMAIN execs : Work(r)
    BY <1>3 DEF Worker
  <2> QED
    BY <1>0, <2>1, WorkOn, WorkLonger
<1>4. CASE \/ \E c \in Client : Invoke(c) \/ Return(c) \/ OutcomeUnknown(c)
           \/ \E m \in net : RequestLost(m)
  <2>1. ASSUME NEW c \in Client, Invoke(c) PROVE execs' = execs
    BY <2>1, InvokeSends DEF SendsOne
  <2>2. ASSUME NEW c \in Client, Return(c) PROVE execs' = execs
    BY <2>2 DEF Return, CallReturns, GetDescribed, HistoryPaged, ListPaged, CallFails, CallAgain,
       Finish, Continue, Rest
  <2>3. execs' = execs
    BY <1>4, <2>1, <2>2 DEF OutcomeUnknown, RequestLost
  <2> QED
    BY <1>1, <2>3
<1>5. CASE Done \/ UNCHANGED vars
  BY <1>1, <1>5 DEF Done, vars
<1> QED
  BY <1>2, <1>3, <1>4, <1>5 DEF Next

LEMMA NumbersInvStep == RunsInv /\ SendsInv /\ NumbersInv /\ [Next]_vars => NumbersInv'
<1> SUFFICES ASSUME RunsInv, SendsInv, NumbersInv, [Next]_vars PROVE NumbersInv'
  OBVIOUS
<1>1. KeysInv'
  BY NextOn, KeysOn DEF NumbersInv
<1>2. script' = script
  <2>1. ASSUME NEW c \in Client, Invoke(c) PROVE script' = script
    BY <2>1, InvokeSends DEF SendsOne
  <2>2. ASSUME NEW c \in Client, Return(c) PROVE script' = script
    BY <2>2 DEF Return, CallReturns, GetDescribed, HistoryPaged, ListPaged, CallFails, CallAgain,
       Finish, Continue, Rest
  <2> QED
    BY <2>1, <2>2 DEF Next, Serve, Worker, OutcomeUnknown, RequestLost, Done, vars
<1>3. WfInv'
  <2>1. CASE \E c \in Client : Invoke(c)
    <3>1. PICK c \in Client : Invoke(c)
      BY <2>1
    <3>2. PICK m : net' = net \cup {m} /\ (m.wf = Doing(c).wf \/ m.wf = 0) /\ Busy(c)
      BY <3>1, InvokeWf
    <3>3. m.wf \in Nat
      BY <3>2 DEF NumbersInv, Busy, Doing
    <3> QED
      BY <3>2, <3>3 DEF WfInv, NumbersInv
  <2>2. ASSUME NEW m \in net, Serve(m) PROVE net' \subseteq net
    BY <2>2 DEF Serve, Handle, Refuse, Missing, ConflictsOut, StartReplayed, StartRefused,
       StartWorkflowExecution, SignalWorkflowExecution, RequestCancelWorkflowExecution,
       WakeWorkflowExecution, TerminateWorkflowExecution, CreateNamespace, ListNamespaces,
       DescribeWorkflowExecution, GetWorkflowExecutionHistory, ListWorkflowExecutions, Answer
  <2>3. ASSUME NEW c \in Client, Return(c) PROVE net' \subseteq net
    BY <2>3 DEF Return, CallReturns, GetDescribed, HistoryPaged, ListPaged, CallFails, CallAgain,
       Finish, Continue, Rest
  <2>4. ASSUME NEW r \in DOMAIN execs, Worker(r) PROVE net' \subseteq net
    BY <2>4 DEF Worker, Work, WorkflowTaskProgress, WorkflowCompletes, WorkflowFails, CloseBy,
       ContinueWorkflowAsNew
  <2>5. CASE net' \subseteq net
    BY <2>5 DEF WfInv, NumbersInv
  <2> QED
    BY <2>1, <2>2, <2>3, <2>4, <2>5 DEF Next, OutcomeUnknown, RequestLost, Done, vars
<1> QED
  BY <1>1, <1>2, <1>3 DEF NumbersInv

-----------------------------------------------------------------------------
(* Listings that are read page by page.                                    *)

RowList(s) == IsTable(s) /\ (\A i \in DOMAIN s : s[i] \in DOMAIN execs) /\ InOrder(s)

(* A run that was there at the first page, and what has become of it.      *)
Steady(w, filter) == filter = "" \/ Closings(w.run) = w.closings

Seen(w, ns, filter) ==
    /\ w.run \in DOMAIN execs /\ w.closings \subseteq Closings(w.run)
    /\ execs[w.run].slot[1] = ns
    /\ filter = "" \/ (Closings(w.run) = w.closings => execs[w.run].status = filter)

Shows(s, r) == \E a \in DOMAIN s : s[a] = r

(* The rows s of the pages so far, and the token of the next page: what is *)
(* still to be shown comes after it.                                       *)
Covers(s, was, filter, token) ==
    \A w \in was : Steady(w, filter) =>
        Shows(s, w.run) \/ (token # << >> /\ RowLess(SortKey(w.run), token))

Through(s, was, ns, filter, token) ==
    /\ RowList(s) /\ Covers(s, was, filter, token)
    /\ \A w \in was : Seen(w, ns, filter)
    /\ token = << >> \/ (s # << >> /\ token = SortKey(s[Len(s)]))

LEMMA RunOn ==
    ASSUME RowsOn(execs, execs'), NEW r \in DOMAIN execs
    PROVE  /\ r \in DOMAIN execs' /\ SortKey(r)' = SortKey(r)
           /\ execs'[r].slot = execs[r].slot
           /\ Closings(r) \subseteq Closings(r)'
           /\ Closings(r)' = Closings(r) => execs'[r].status = execs[r].status
<1>1. r \in DOMAIN execs' /\ RowOn(execs[r], execs'[r])
  BY DEF RowsOn
<1>2. Closings(r) = ClosedAt(execs[r].hist) /\ Closings(r)' = ClosedAt(execs'[r].hist)
  BY DEF Closings, ClosedAt
<1>3. execs'[r].slot = execs[r].slot /\ execs'[r].start = execs[r].start
  BY <1>1 DEF RowOn
<1>4. SortKey(r)' = SortKey(r)
  BY <1>3 DEF SortKey
<1> QED
  BY <1>1, <1>2, <1>3, <1>4 DEF RowOn

LEMMA RowListOn ==
    ASSUME RowsOn(execs, execs'), NEW s, RowList(s)
    PROVE  RowList(s)'
<1>1. \A i \in DOMAIN s : s[i] \in DOMAIN execs'
  BY RunOn DEF RowList
<1>2. ASSUME NEW i \in DOMAIN s, NEW j \in DOMAIN s, i < j PROVE Before(s[i], s[j])'
  <2>1. RowLess(SortKey(s[j]), SortKey(s[i]))
    BY <1>2 DEF RowList, InOrder, Before
  <2>2. SortKey(s[i])' = SortKey(s[i]) /\ SortKey(s[j])' = SortKey(s[j])
    BY RunOn DEF RowList
  <2>3. Before(s[i], s[j])' <=> RowLess(SortKey(s[j])', SortKey(s[i])')
    BY DEF Before, RowLess
  <2> QED
    BY <2>1, <2>2, <2>3
<1> QED
  BY <1>1, <1>2 DEF RowList, InOrder

LEMMA SeenOn ==
    ASSUME RowsOn(execs, execs'), NEW w, NEW ns, NEW filter, Seen(w, ns, filter)
    PROVE  Seen(w, ns, filter)' /\ (Steady(w, filter)' => Steady(w, filter))
<1>1. PICK r, cl : r = w.run /\ cl = w.closings
  OBVIOUS
<1>2. /\ r \in DOMAIN execs' /\ execs'[r].slot = execs[r].slot
      /\ Closings(r) \subseteq Closings(r)'
      /\ Closings(r)' = Closings(r) => execs'[r].status = execs[r].status
  BY <1>1, RunOn DEF Seen
<1>3. /\ cl \subseteq Closings(r) /\ execs[r].slot[1] = ns
      /\ filter = "" \/ (Closings(r) = cl => execs[r].status = filter)
  BY <1>1 DEF Seen
<1>4. /\ cl \subseteq Closings(r)' /\ execs'[r].slot[1] = ns
      /\ filter = "" \/ (Closings(r)' = cl => Closings(r) = cl /\ execs'[r].status = filter)
  BY <1>2, <1>3
<1> QED
  BY <1>1, <1>2, <1>4 DEF Seen, Steady

LEMMA ThroughOn ==
    ASSUME RowsOn(execs, execs'), NEW s, NEW was, NEW ns, NEW filter, NEW token,
           IsTable(s), Through(s, was, ns, filter, token)
    PROVE  Through(s, was, ns, filter, token)'
<1>1. RowList(s)'
  BY RowListOn DEF Through
<1>2. \A w \in was : Seen(w, ns, filter)'
  BY SeenOn DEF Through
<1>3. ASSUME NEW w \in was, Steady(w, filter)'
      PROVE  Shows(s, w.run) \/ (token # << >> /\ RowLess(SortKey(w.run)', token))
  <2>1. Steady(w, filter) /\ w.run \in DOMAIN execs
    BY <1>3, SeenOn DEF Through, Seen
  <2>2. PICK r : r = w.run
    OBVIOUS
  <2>3. SortKey(r)' = SortKey(r)
    BY <2>1, <2>2, RunOn
  <2>4. Shows(s, r) \/ (token # << >> /\ RowLess(SortKey(r), token))
    BY <2>1, <2>2 DEF Through, Covers
  <2>5. RowLess(SortKey(r)', token) <=> RowLess(SortKey(r), token)
    BY <2>3
  <2> QED
    BY <2>2, <2>4, <2>5
<1>4. Covers(s, was, filter, token)'
  BY <1>3 DEF Covers, Shows, RowLess
<1>5. token = << >> \/ (s # << >> /\ token = SortKey(s[Len(s)])')
  <2>1. CASE token # << >>
    <3>1. s # << >> /\ token = SortKey(s[Len(s)])
      BY <2>1 DEF Through
    <3>2. Len(s) \in DOMAIN s
      <4>1. DOMAIN s = 1 .. Len(s) /\ Len(s) \in Nat
        BY TableIs
      <4>2. Len(s) # 0
        BY <3>1
      <4> QED
        BY <4>1, <4>2
    <3>3. s[Len(s)] \in DOMAIN execs
      BY <3>2 DEF Through, RowList
    <3>4. SortKey(s[Len(s)])' = SortKey(s[Len(s)])
      BY <3>3, RunOn
    <3> QED
      BY <3>1, <3>4
  <2> QED
    BY <2>1
<1> QED
  BY <1>1, <1>2, <1>4, <1>5 DEF Through

(* What a caller has before it asks for a page.                            *)
Halfway(s, was, ns, filter, token) ==
    /\ IsTable(s) /\ \A w \in was : Seen(w, ns, filter)
    /\ \/ s = << >> /\ token = << >>
       \/ token # << >> /\ Through(s, was, ns, filter, token)

LEMMA HalfwayOn ==
    ASSUME RowsOn(execs, execs'), NEW s, NEW was, NEW ns, NEW filter, NEW token,
           Halfway(s, was, ns, filter, token)
    PROVE  Halfway(s, was, ns, filter, token)'
<1>1. IsTable(s) /\ \A w \in was : Seen(w, ns, filter)'
  BY SeenOn DEF Halfway
<1>2. Through(s, was, ns, filter, token) => Through(s, was, ns, filter, token)'
  BY <1>1, ThroughOn
<1> QED
  BY <1>1, <1>2 DEF Halfway

FirstOnesOf(page, all, k, rows) ==
    k \in Nat /\ page = SubSeq(all, 1, k) /\ \A i \in 1 .. k : all[i] \in rows

LEMMA FirstOnes ==
    ASSUME NEW rows, NEW all, NEW k, NEW page, FirstOnesOf(page, all, k, rows)
    PROVE  IsTable(page) /\ Len(page) = k /\ \A i \in 1 .. k : page[i] = all[i]
<1> DEFINE R == {page[i] : i \in DOMAIN page}
<1>1. k \in Nat
  BY DEF FirstOnesOf
<1>2. 1 \in Int /\ k \in Int
  BY <1>1
<1>3. /\ page \in Seq(rows) /\ Len(page) = IF 1 <= k THEN k - 1 + 1 ELSE 0
      /\ \A i \in 1 .. k - 1 + 1 : page[i] = all[1 + i - 1]
  BY <1>2, SubSeqProperties DEF FirstOnesOf
<1>4. Len(page) = k /\ \A i \in 1 .. k : page[i] = all[i]
  BY <1>1, <1>3
<1>5. DOMAIN page = 1 .. k
  BY <1>3, <1>4
<1>6. page = [i \in 1 .. k |-> page[i]] /\ \A i \in 1 .. k : page[i] \in R
  BY <1>3, <1>5
<1> HIDE DEF R
<1>7. page \in Seq(R)
  BY <1>1, <1>6
<1>8. IsTable(page)
  BY <1>7 DEF IsTable, R
<1> QED
  BY <1>4, <1>8

ListingHits(ns, filter, token) ==
    {r \in DOMAIN execs : Matches(r, ns, filter) /\ BeyondCursor(r, token)}

(* A page of the listing.                                                  *)
ListingPage(ns, filter, token, size, page, next) ==
    LET all == Listed(ListingHits(ns, filter, token))
    IN /\ page = SubSeq(all, 1, IF size < Len(all) THEN size ELSE Len(all))
       /\ next = IF Len(page) = size THEN SortKey(page[size]) ELSE << >>

(* ... has the first rows there are behind the token, and all if it is not *)
(* full.                                                                   *)
LEMMA PageOfHits ==
    ASSUME RunsInv, KeysInv, NEW ns, NEW filter, NEW token, NEW size \in Nat \ {0},
           NEW page, NEW next, ListingPage(ns, filter, token, size, page, next),
           NEW hits, hits = ListingHits(ns, filter, token)
    PROVE  /\ IsTable(page) /\ RowList(page) /\ \A i \in DOMAIN page : page[i] \in hits
           /\ \A r \in hits : \/ Shows(page, r)
                              \/ next # << >> /\ RowLess(SortKey(r), next)
           /\ next = << >> \/ (page # << >> /\ next = SortKey(page[Len(page)]))
<1>1. PICK all, n : all = Listed(hits) /\ n = Cardinality(hits)
  OBVIOUS
<1>2. hits \subseteq DOMAIN execs
  BY DEF ListingHits
<1>3. /\ n \in Nat /\ all \in [1 .. n -> hits] /\ InOrder(all)
      /\ \A r \in hits : \E i \in 1 .. n : all[i] = r
  BY <1>1, <1>2, ListedIs
<1>4. /\ page = SubSeq(all, 1, IF size < Len(all) THEN size ELSE Len(all))
      /\ next = IF Len(page) = size THEN SortKey(page[size]) ELSE << >>
  BY <1>1 DEF ListingPage
<1>5. PICK k : k = IF size < Len(all) THEN size ELSE Len(all)
  OBVIOUS
<1>6. IsTable(page) /\ Len(page) = k /\ \A i \in 1 .. k : page[i] = all[i]
  <2>1. Len(all) = n /\ size \in Nat
    BY <1>3
  <2>2. k \in Nat /\ k <= n
    BY <1>3, <1>5, <2>1
  <2>3. page = SubSeq(all, 1, k) /\ \A i \in 1 .. k : all[i] \in hits
    BY <1>3, <1>4, <1>5, <2>2
  <2>4. FirstOnesOf(page, all, k, hits)
    BY <2>2, <2>3 DEF FirstOnesOf
  <2> QED
    BY <2>4, FirstOnes
<1>7. /\ DOMAIN page = 1 .. k /\ k \in Nat /\ k <= n /\ DOMAIN all = 1 .. n
      /\ k = IF size < n THEN size ELSE n
  <2>1. Len(all) = n /\ DOMAIN page = 1 .. k
    BY <1>3, <1>6, TableIs
  <2> QED
    BY <1>3, <1>5, <2>1
<1>8. \A i \in DOMAIN page : page[i] \in hits /\ page[i] \in DOMAIN execs
  BY <1>2, <1>3, <1>6, <1>7
<1>9. InOrder(page)
  BY <1>3, <1>6, <1>7 DEF InOrder
<1>10. ASSUME NEW r \in hits, ~Shows(page, r)
       PROVE  next # << >> /\ RowLess(SortKey(r), next)
  <2>1. PICK i \in 1 .. n : all[i] = r
    BY <1>3, <1>10
  <2>2. i \notin 1 .. k
    BY <1>6, <1>7, <1>10, <2>1 DEF Shows
  <2>3. k = size /\ size < i /\ size \in 1 .. k /\ size \in 1 .. n
    BY <1>3, <1>7, <2>1, <2>2
  <2>4. next = SortKey(page[size]) /\ page[size] = all[size]
    BY <1>4, <1>6, <2>3
  <2>5. RowLess(SortKey(r), SortKey(all[size]))
    BY <1>3, <1>7, <2>1, <2>3 DEF InOrder, Before
  <2>6. next # << >>
    BY <2>4 DEF SortKey
  <2> QED
    BY <2>4, <2>5, <2>6
<1>11. next = << >> \/ (page # << >> /\ next = SortKey(page[Len(page)]))
  <2>1. CASE Len(page) = size
    <3>1. page # << >>
      BY <1>6, <2>1
    <3> QED
      BY <1>4, <2>1, <3>1
  <2>2. CASE Len(page) # size
    BY <1>4, <2>2
  <2> QED
    BY <2>1, <2>2
<1> QED
  BY <1>6, <1>8, <1>9, <1>10, <1>11 DEF RowList

(* The pages so far and the next one.                                      *)
LEMMA ListPageIs ==
    ASSUME RunsInv, KeysInv, NEW got, NEW was, NEW ns, NEW filter, NEW token,
           Halfway(got, was, ns, filter, token), NEW size \in Nat \ {0},
           NEW page, NEW next, ListingPage(ns, filter, token, size, page, next)
    PROVE  IsTable(page) /\ Through(got \o page, was, ns, filter, next)
<1>1. PICK hits, s : hits = ListingHits(ns, filter, token) /\ s = got \o page
  OBVIOUS
<1>2. /\ IsTable(page) /\ RowList(page) /\ \A i \in DOMAIN page : page[i] \in hits
      /\ \A r \in hits : Shows(page, r) \/ (next # << >> /\ RowLess(SortKey(r), next))
      /\ next = << >> \/ (page # << >> /\ next = SortKey(page[Len(page)]))
  BY <1>1, PageOfHits
<1>3. IsTable(got)
  BY DEF Halfway
<1>4. PICK n, k : n = Len(got) /\ k = Len(page)
  OBVIOUS
<1>5. /\ IsTable(s) /\ Len(s) = n + k /\ DOMAIN s = 1 .. (n + k) /\ n \in Nat /\ k \in Nat
      /\ DOMAIN got = 1 .. n /\ DOMAIN page = 1 .. k
      /\ \A i \in 1 .. n : s[i] = got[i]
      /\ \A j \in 1 .. k : s[n + j] = page[j]
  <2>1. /\ Len(s) = Len(got) + Len(page) /\ \A i \in 1 .. Len(got) : s[i] = got[i]
        /\ \A i \in 1 .. Len(page) : s[Len(got) + i] = page[i]
        /\ DOMAIN s = 1 .. Len(s) /\ DOMAIN got = 1 .. Len(got)
        /\ Len(got) \in Nat /\ Len(page) \in Nat
    BY <1>1, <1>2, <1>3, LongerHistory
  <2>2. IsTable(got \o page)
    BY <1>2, <1>3, ConcatIs
  <2>3. DOMAIN page = 1 .. Len(page)
    BY <1>2, TableIs
  <2> QED
    BY <1>1, <1>4, <2>1, <2>2, <2>3
<1>6. ASSUME NEW i \in DOMAIN s
      PROVE  \/ i \in 1 .. n /\ s[i] = got[i]
             \/ \E j \in 1 .. k : i = n + j /\ s[i] = page[j]
  <2>1. CASE i > n
    <3>1. PICK j : j = i - n
      OBVIOUS
    <3>2. j \in 1 .. k /\ i = n + j
      BY <1>5, <2>1, <3>1
    <3> QED
      BY <1>5, <3>2
  <2>2. CASE ~(i > n)
    BY <1>5, <2>2
  <2> QED
    BY <2>1, <2>2
<1>7. got = << >> \/ (token # << >> /\ Through(got, was, ns, filter, token))
  BY DEF Halfway
<1>8. \A i \in 1 .. n : got[i] \in DOMAIN execs
  BY <1>5, <1>7 DEF Through, RowList
<1>9. \A i \in DOMAIN s : s[i] \in DOMAIN execs
  BY <1>2, <1>5, <1>6, <1>8 DEF RowList
<1>10. ASSUME NEW i \in 1 .. n, NEW j \in 1 .. k PROVE Before(got[i], page[j])
  <2>1. /\ n \in 1 .. n /\ token = SortKey(got[n]) /\ token # << >> /\ RowList(got)
    BY <1>4, <1>5, <1>7, <1>10 DEF Through
  <2>2. page[j] \in hits /\ page[j] \in DOMAIN execs /\ got[i] \in DOMAIN execs
        /\ got[n] \in DOMAIN execs
    BY <1>2, <1>5, <1>8, <1>10, <2>1 DEF RowList
  <2>3. RowLess(SortKey(page[j]), SortKey(got[n]))
    BY <1>1, <2>1, <2>2 DEF ListingHits, BeyondCursor
  <2>4. Before(got[n], page[j])
    BY <2>3 DEF Before
  <2>5. i = n \/ Before(got[i], got[n])
    BY <1>5, <1>10, <2>1 DEF RowList, InOrder
  <2> QED
    BY <2>2, <2>4, <2>5, ListingOrder
<1>11. InOrder(s)
  <2> SUFFICES ASSUME NEW i \in DOMAIN s, NEW j \in DOMAIN s, i < j PROVE Before(s[i], s[j])
    BY DEF InOrder
  <2>1. CASE i \in 1 .. n /\ j \in 1 .. n
    <3>1. InOrder(got) /\ i \in DOMAIN got /\ j \in DOMAIN got
      BY <1>5, <1>7, <2>1 DEF Through, RowList
    <3> QED
      BY <1>5, <2>1, <3>1 DEF InOrder
  <2>2. CASE i \in 1 .. n /\ j \notin 1 .. n
    BY <1>5, <1>6, <1>10, <2>2
  <2>3. CASE i \notin 1 .. n
    <3>1. PICK a \in 1 .. k : i = n + a /\ s[i] = page[a]
      BY <1>6, <2>3
    <3>2. PICK b \in 1 .. k : j = n + b /\ s[j] = page[b]
      BY <1>5, <1>6, <2>3
    <3>3. a < b
      BY <1>5, <3>1, <3>2
    <3> QED
      BY <1>2, <1>5, <3>1, <3>2, <3>3 DEF RowList, InOrder
  <2> QED
    BY <2>1, <2>2, <2>3
<1>12. \A r : Shows(got, r) \/ Shows(page, r) => Shows(s, r)
  <2> TAKE r
  <2>1. ASSUME Shows(got, r) PROVE Shows(s, r)
    <3>1. PICK i \in DOMAIN got : got[i] = r
      BY <2>1 DEF Shows
    <3>2. i \in DOMAIN s /\ s[i] = r
      BY <1>5, <3>1
    <3> QED
      BY <3>2, Zenon DEF Shows
  <2>2. ASSUME Shows(page, r) PROVE Shows(s, r)
    <3>1. PICK j \in DOMAIN page : page[j] = r
      BY <2>2 DEF Shows
    <3>2. n + j \in DOMAIN s /\ s[n + j] = r
      BY <1>5, <3>1
    <3> QED
      BY <3>2, Zenon DEF Shows
  <2> QED
    BY <2>1, <2>2
<1>13. ASSUME NEW w \in was, Steady(w, filter)
       PROVE  Shows(s, w.run) \/ (next # << >> /\ RowLess(SortKey(w.run), next))
  <2>1. CASE Shows(got, w.run)
    BY <1>12, <2>1
  <2>2. CASE ~Shows(got, w.run)
    <3>1. Seen(w, ns, filter)
      BY DEF Halfway
    <3>2. w.run \in DOMAIN execs /\ Matches(w.run, ns, filter)
      BY <1>13, <3>1 DEF Seen, Steady, Matches
    <3>3. BeyondCursor(w.run, token)
      BY <1>13, <2>2 DEF Halfway, Through, Covers, BeyondCursor
    <3>4. w.run \in hits
      BY <1>1, <3>2, <3>3 DEF ListingHits
    <3> QED
      BY <1>2, <1>12, <3>4
  <2> QED
    BY <2>1, <2>2
<1>14. next = << >> \/ (s # << >> /\ next = SortKey(s[Len(s)]))
  <2>1. CASE next # << >>
    <3>1. page # << >> /\ next = SortKey(page[k])
      BY <1>2, <1>4, <2>1
    <3>2. k # 0
      BY <1>2, <1>4, <3>1
    <3>3. k \in 1 .. k /\ s[n + k] = page[k] /\ n + k \in DOMAIN s
      BY <1>5, <3>2
    <3>4. s # << >>
      BY <3>3
    <3> QED
      BY <1>5, <3>1, <3>3, <3>4
  <2> QED
    BY <2>1
<1>15. RowList(s) /\ Covers(s, was, filter, next)
  BY <1>5, <1>9, <1>11, <1>13 DEF RowList, Covers
<1>16. \A w \in was : Seen(w, ns, filter)
  BY DEF Halfway
<1>17. Through(s, was, ns, filter, next)
  BY <1>14, <1>15, <1>16 DEF Through
<1> QED
  BY <1>1, <1>2, <1>17

Listing(c) == Busy(c) /\ Doing(c).do = "list"

NsOf(c) == NamespaceOrDefault(Options[c].ns)

(* A request of the call's, for its next page.                             *)
ListAsks(c, m) ==
    /\ m.rpc = "List" /\ m.ns = Options[c].ns /\ m.filter = Doing(c).filter
    /\ m.page = Doing(c).page /\ m.token = job[c].token

(* An answer with that page, as of some time since the request.            *)
IsListPage(c, runs, token) ==
    IsTable(runs) /\ Through(job[c].got \o runs, job[c].was, NsOf(c), Doing(c).filter, token)

ListHolds(c) == Halfway(job[c].got, job[c].was, NsOf(c), Doing(c).filter, job[c].token)

ListAwaits(c) ==
    stream[c].st = "open" => \A m \in net : m.c = c /\ m.k = stream[c].k => ListAsks(c, m)

ListHeard(c) ==
    stream[c].st = "answered" /\ stream[c].code = "OK"
        => IsListPage(c, stream[c].val.runs, stream[c].val.token)

ListHas(c) == Listing(c) => ListHolds(c) /\ ListAwaits(c) /\ ListHeard(c)

ListInv == \A c \in Client : ListHas(c)

(* A listing that is over.                                                 *)
Whole(s, was, ns, filter) == IsTable(s) /\ Through(s, was, ns, filter, << >>)

ListLogInv ==
    \A c \in Client : \A i \in DOMAIN log[c] :
        script[c][i].do = "list" /\ log[c][i].code = "OK" =>
            Whole(log[c][i].got, log[c][i].was, NsOf(c), script[c][i].filter)

ListsInv == ListInv /\ ListLogInv

LEMMA SteadyCall ==
    ASSUME script' = script, NEW c, job'[c].at = job[c].at
    PROVE  Listing(c)' = Listing(c) /\ Doing(c)' = Doing(c) /\ NsOf(c)' = NsOf(c)
BY DEF Listing, Doing, Busy, NsOf

LEMMA ListHoldsOn ==
    ASSUME RowsOn(execs, execs'), NEW c, SteadyJob(c), ListHolds(c)
    PROVE  /\ ListHolds(c)'
           /\ \A runs, token : IsListPage(c, runs, token) => IsListPage(c, runs, token)'
<1>1. PICK j, ns, filter : j = job[c] /\ ns = NsOf(c) /\ filter = Doing(c).filter
  OBVIOUS
<1>2. job'[c] = j /\ NsOf(c)' = ns /\ Doing(c)'.filter = filter
  BY <1>1, SteadyCall DEF SteadyJob
<1>3. Halfway(j.got, j.was, ns, filter, j.token)
  BY <1>1 DEF ListHolds
<1>4. PICK got, was, token : got = j.got /\ was = j.was /\ token = j.token
  OBVIOUS
<1>5. Halfway(got, was, ns, filter, token)'
  BY <1>3, <1>4, HalfwayOn
<1>6. ListHolds(c)'
  BY <1>2, <1>4, <1>5 DEF ListHolds
<1>7. ASSUME NEW runs, NEW next, IsListPage(c, runs, next)
      PROVE  IsListPage(c, runs, next)'
  <2>1. PICK s : s = got \o runs
    OBVIOUS
  <2>2. IsTable(runs) /\ IsTable(s) /\ Through(s, was, ns, filter, next)
    <3>1. IsTable(got) /\ IsTable(runs)
      BY <1>3, <1>4, <1>7 DEF Halfway, IsListPage
    <3>2. IsTable(got \o runs)
      BY <3>1, ConcatIs
    <3>3. Through(s, was, ns, filter, next)
      BY <1>1, <1>4, <1>7, <2>1 DEF IsListPage
    <3> QED
      BY <2>1, <3>1, <3>2, <3>3
  <2>3. Through(s, was, ns, filter, next)'
    BY <2>2, ThroughOn
  <2> QED
    BY <1>2, <1>4, <2>1, <2>2, <2>3 DEF IsListPage
<1> QED
  BY <1>6, <1>7

(* A caller whose stream does not move, or whose call comes to nothing.    *)
LEMMA ListerWaits ==
    ASSUME RowsOn(execs, execs'), NEW c, SteadyJob(c), ListHas(c),
           \/ stream'[c] = stream[c] /\ \A m \in net' : m.c = c => m \in net
           \/ stream'[c].st = "answered" /\ stream'[c].code # "OK"
    PROVE  ListHas(c)'
<1>1. Listing(c)' = Listing(c) /\ Doing(c)' = Doing(c) /\ NsOf(c)' = NsOf(c)
  BY SteadyCall DEF SteadyJob
<1> SUFFICES ASSUME Listing(c) PROVE ListHolds(c)' /\ ListAwaits(c)' /\ ListHeard(c)'
  BY <1>1 DEF ListHas
<1>2. ListHolds(c) /\ ListAwaits(c) /\ ListHeard(c)
  BY DEF ListHas
<1>3. ListHolds(c)'
  BY <1>2, ListHoldsOn
<1>4. \A m : ListAsks(c, m) => ListAsks(c, m)'
  BY <1>1 DEF ListAsks, SteadyJob
<1>5. CASE stream'[c] = stream[c] /\ \A m \in net' : m.c = c => m \in net
  <2>1. ListAwaits(c)'
    BY <1>2, <1>4, <1>5 DEF ListAwaits
  <2>2. PICK runs, token : runs = stream[c].val.runs /\ token = stream[c].val.token
    OBVIOUS
  <2>3. IsListPage(c, runs, token) => IsListPage(c, runs, token)'
    BY <1>2, ListHoldsOn
  <2>4. ListHeard(c)'
    BY <1>2, <1>5, <2>2, <2>3 DEF ListHeard
  <2> QED
    BY <1>3, <2>1, <2>4
<1>6. CASE stream'[c].st = "answered" /\ stream'[c].code # "OK"
  BY <1>3, <1>6 DEF ListAwaits, ListHeard
<1> QED
  BY <1>5, <1>6

LEMMA ListLogKept ==
    ASSUME RowsOn(execs, execs'), UNCHANGED <<script, log>>, ListLogInv
    PROVE  ListLogInv'
<1> SUFFICES ASSUME NEW c \in Client, NEW i \in DOMAIN log[c],
                    script[c][i].do = "list", log[c][i].code = "OK"
             PROVE  Whole(log[c][i].got, log[c][i].was, NsOf(c), script[c][i].filter)'
  BY DEF ListLogInv
<1>1. PICK s, was, ns, filter :
         /\ s = log[c][i].got /\ was = log[c][i].was /\ ns = NsOf(c)
         /\ filter = script[c][i].filter
  OBVIOUS
<1>2. IsTable(s) /\ Through(s, was, ns, filter, << >>)
  BY <1>1 DEF ListLogInv, Whole
<1>3. Through(s, was, ns, filter, << >>)'
  BY <1>2, ThroughOn
<1>4. /\ log'[c][i].got = s /\ log'[c][i].was = was /\ NsOf(c)' = ns
      /\ script'[c][i].filter = filter
  BY <1>1 DEF NsOf
<1>5. Whole(s, was, ns, filter)'
  BY <1>2, <1>3 DEF Whole
<1> QED
  BY <1>4, <1>5 DEF Whole

(* A call sends a request for its next page.                               *)
LEMMA InvokeLists ==
    ASSUME SendsInv, SendsInv', ListsInv, RowsOn(execs, execs'), NEW c \in Client, Invoke(c)
    PROVE  ListsInv'
<1>1. PICK s : SendsOne(c, s)
  BY InvokeSends
<1>2. /\ execs' = execs /\ script' = script /\ log' = log
      /\ net' = net \cup {s} /\ s.c = c
      /\ \A d \in Client \ {c} : stream'[d] = stream[d]
  BY <1>1 DEF SendsOne
<1>3. ListLogInv'
  BY <1>2, ListLogKept DEF ListsInv
<1>4. \A d \in Client \ {c} : job'[d] = job[d]
  BY DEF Invoke, StartWorkflow, SignalWorkflow, CancelWorkflow, TerminateWorkflow,
     CreateNamespaceCall, ListNamespacesCall, DescribeWorkflow, GetWorkflowHistory,
     ListWorkflows, Sent, SendsInv, JobInv
<1>5. ASSUME NEW d \in Client, d # c PROVE ListHas(d)'
  <2>1. SteadyJob(d) /\ stream'[d] = stream[d] /\ \A n \in net' : n.c = d => n \in net
    BY <1>2, <1>4, <1>5 DEF SteadyJob
  <2>2. ListHas(d)
    BY DEF ListsInv, ListInv
  <2> QED
    BY <2>1, <2>2, ListerWaits
<1>6. ListHas(c)'
  <2>1. job'[c].at = job[c].at
    BY <1>1 DEF SendsOne
  <2>2. Listing(c)' = Listing(c) /\ Doing(c)' = Doing(c) /\ NsOf(c)' = NsOf(c)
    BY <1>2, <2>1, SteadyCall
  <2> SUFFICES ASSUME Listing(c) PROVE ListHolds(c)' /\ ListAwaits(c)' /\ ListHeard(c)'
    BY <2>2 DEF ListHas
  <2>3. ListWorkflows(c)
    BY DEF Listing, Invoke, StartWorkflow, SignalWorkflow, CancelWorkflow,
       TerminateWorkflow, CreateNamespaceCall, ListNamespacesCall, DescribeWorkflow,
       GetWorkflowHistory, May
  <2>4. PICK o, m : /\ o = Outgoing(c, "List")
                    /\ m = [o EXCEPT !.filter = Doing(c).filter, !.page = Doing(c).page,
                                     !.token = job[c].token]
    OBVIOUS
  <2>5. Send(c, m)
    BY <2>3, <2>4 DEF ListWorkflows
  <2>6. /\ m.c = c /\ m.rpc = "List" /\ m.ns = Options[c].ns /\ m.filter = Doing(c).filter
        /\ m.page = Doing(c).page /\ m.token = job[c].token
        /\ \/ m.k = stream[c].k + 1
           \/ m.k = stream[c].k /\ \A n \in net : ~(n.c = c /\ n.k = stream[c].k)
    BY <2>4 DEF Outgoing, Request
  <2>7. PICK was : /\ job' = [job EXCEPT ![c].was = was]
                   /\ was = IF job[c].token = << >> THEN Listable(c) ELSE job[c].was
    BY <2>3 DEF ListWorkflows
  <2>8. job'[c].got = job[c].got /\ job'[c].token = job[c].token /\ job'[c].was = was
    BY <2>7 DEF SendsInv, JobInv, JobColumns
  <2>9. ListHolds(c)
    BY DEF ListsInv, ListInv, ListHas
  <2>10. PICK got, token, ns, filter :
            /\ got = job[c].got /\ token = job[c].token /\ ns = NsOf(c) /\ filter = Doing(c).filter
    OBVIOUS
  <2>11. Halfway(got, was, ns, filter, token)
    <3>1. Halfway(got, job[c].was, ns, filter, token)
      BY <2>9, <2>10 DEF ListHolds
    <3>2. CASE token = << >>
      <4>1. was = {[run |-> r, closings |-> Closings(r)] :
                      r \in {x \in DOMAIN execs : Matches(x, ns, filter)}}
        BY <2>7, <2>10, <3>2 DEF Listable, NsOf
      <4>2. \A w \in was : Seen(w, ns, filter)
        <5> SUFFICES ASSUME NEW w \in was PROVE Seen(w, ns, filter)
          OBVIOUS
        <5>1. PICK r \in DOMAIN execs :
                 Matches(r, ns, filter) /\ w = [run |-> r, closings |-> Closings(r)]
          BY <4>1
        <5>2. w.run = r /\ w.closings = Closings(r)
          BY <5>1
        <5> QED
          BY <5>1, <5>2 DEF Seen, Matches
      <4> QED
        BY <3>1, <3>2, <4>2 DEF Halfway
    <3>3. CASE token # << >>
      BY <2>7, <2>10, <3>1, <3>3
    <3> QED
      BY <3>2, <3>3
  <2>12. Halfway(got, was, ns, filter, token)'
    BY <2>11, HalfwayOn
  <2>13. ListHolds(c)'
    BY <2>2, <2>8, <2>10, <2>12 DEF ListHolds
  <2>14. stream'[c].st = "open" /\ stream'[c].k = m.k /\ net' = net \cup {m}
    BY <2>5 DEF Send, SendsInv, StreamInv, StreamColumns
  <2>15. ListAsks(c, m)'
    BY <2>2, <2>6, <2>8 DEF ListAsks
  <2>16. ASSUME NEW n \in net', n.c = c, n.k = m.k PROVE n = m
    <3>1. n \in net => n.k <= stream[c].k /\ stream[c].k \in Nat
      BY <2>16 DEF SendsInv, NetInv, StreamInv
    <3> QED
      BY <2>6, <2>14, <2>16, <3>1
  <2>17. ListAwaits(c)'
    BY <2>14, <2>15, <2>16 DEF ListAwaits
  <2>18. ListHeard(c)'
    BY <2>14 DEF ListHeard
  <2> QED
    BY <2>13, <2>17, <2>18
<1> QED
  BY <1>3, <1>5, <1>6 DEF ListsInv, ListInv

(* The handler answers with that page.                                     *)
LEMMA ListingServes ==
    ASSUME RunsInv, NumbersInv, NEW d \in Client, Listing(d), ListHolds(d), NEW m,
           ListAsks(d, m), ListWorkflowExecutions(m)
    PROVE  \E val : Answer(m, "OK", val) /\ IsListPage(d, val.runs, val.token)
<1>1. PICK size, token, ns, filter :
        /\ size = PageSize(m, DefaultListPageSize) /\ token = m.token
        /\ ns = NamespaceOrDefault(m.ns) /\ filter = m.filter
  OBVIOUS
<1>2. PICK page, next, val :
        /\ ListingPage(ns, filter, token, size, page, next)
        /\ val = [NoValue EXCEPT !.runs = page, !.token = next]
        /\ Answer(m, "OK", val)
  BY <1>1 DEF ListWorkflowExecutions, ListingPage, ListingHits
<1>3. size \in Nat \ {0}
  <2>1. m.page \in Nat
    BY DEF ListAsks, NumbersInv, Listing, Busy, Doing
  <2>2. DefaultListPageSize \in Nat \ {0}
    BY FrontendAssumption
  <2> QED
    BY <1>1, <2>1, <2>2 DEF PageSize
<1>4. token = job[d].token /\ ns = NsOf(d) /\ filter = Doing(d).filter
  BY <1>1 DEF ListAsks, NsOf
<1>5. PICK got, was : got = job[d].got /\ was = job[d].was
  OBVIOUS
<1>6. Halfway(got, was, ns, filter, token)
  BY <1>4, <1>5 DEF ListHolds
<1>7. IsTable(page) /\ Through(got \o page, was, ns, filter, next)
  BY <1>2, <1>3, <1>6, ListPageIs DEF NumbersInv
<1>8. val.runs = page /\ val.token = next
  BY <1>2 DEF NoValue
<1>9. IsListPage(d, page, next)
  BY <1>4, <1>5, <1>7 DEF IsListPage
<1> QED
  BY <1>2, <1>8, <1>9

LEMMA ServeLists ==
    ASSUME RunsInv, SendsInv, NumbersInv, ListsInv, RowsOn(execs, execs'), NEW m \in net, Serve(m)
    PROVE  ListsInv'
<1>1. Handle(m) /\ UNCHANGED <<script, job, log>>
  BY DEF Serve
<1>2. StreamInv
  BY DEF SendsInv
<1>3. ListLogInv'
  BY <1>1, ListLogKept DEF ListsInv
<1> SUFFICES ASSUME NEW d \in Client PROVE ListHas(d)'
  BY <1>3 DEF ListsInv, ListInv
<1>4. SteadyJob(d) /\ ListHas(d)
  BY <1>1 DEF SteadyJob, ListsInv, ListInv
<1>5. PICK code, val : Answer(m, code, val) /\ (Refuse(m) => code # "OK")
  <2>1. CASE Refuse(m)
    BY <2>1 DEF Refuse
  <2> QED
    BY <1>1, <2>1 DEF Handle, Missing, ConflictsOut, StartReplayed, StartRefused,
       StartWorkflowExecution, SignalWorkflowExecution, RequestCancelWorkflowExecution,
       WakeWorkflowExecution, TerminateWorkflowExecution, CreateNamespace, ListNamespaces,
       DescribeWorkflowExecution, GetWorkflowExecutionHistory, ListWorkflowExecutions
<1>6. net' = net \ {m} /\ Hears(m, code)
  BY <1>2, <1>5, AnswerIs
<1>7. CASE stream'[d] = stream[d]
  BY <1>4, <1>6, <1>7, ListerWaits
<1>8. CASE /\ d = m.c /\ stream[d].k = m.k /\ stream[d].st = "open"
           /\ stream'[d].st = "answered"
  <2>1. Listing(d)' = Listing(d)
    BY <1>1, SteadyCall
  <2> SUFFICES ASSUME Listing(d) PROVE ListHolds(d)' /\ ListAwaits(d)' /\ ListHeard(d)'
    BY <2>1 DEF ListHas
  <2>2. ListAsks(d, m) /\ ListHolds(d)
    BY <1>4, <1>8 DEF ListAwaits, ListHas
  <2>3. Refuse(m) \/ ListWorkflowExecutions(m)
    BY <1>1, <2>2 DEF ListAsks, Handle, Missing, ConflictsOut, StartReplayed, StartRefused,
       StartWorkflowExecution, SignalWorkflowExecution, RequestCancelWorkflowExecution,
       WakeWorkflowExecution, TerminateWorkflowExecution, CreateNamespace, ListNamespaces,
       DescribeWorkflowExecution, GetWorkflowExecutionHistory
  <2>4. ListHolds(d)'
    BY <1>4, <2>2, ListHoldsOn
  <2>5. ListAwaits(d)'
    BY <1>8 DEF ListAwaits
  <2>6. CASE Refuse(m)
    <3>1. code # "OK"
      BY <1>5, <2>6
    <3>2. stream'[d].code = code
      BY <1>5, <1>8 DEF Answer, StreamInv, StreamColumns, SendsInv
    <3> QED
      BY <2>4, <2>5, <3>1, <3>2 DEF ListHeard
  <2>7. CASE ListWorkflowExecutions(m)
    <3>1. PICK v : Answer(m, "OK", v) /\ IsListPage(d, v.runs, v.token)
      BY <2>2, <2>7, ListingServes
    <3>2. PICK runs, token : runs = v.runs /\ token = v.token
      OBVIOUS
    <3>3. IsListPage(d, runs, token)'
      BY <1>4, <2>2, <3>1, <3>2, ListHoldsOn
    <3>4. stream'[d].val = v
      BY <1>8, <3>1 DEF Answer, StreamInv, StreamColumns, SendsInv
    <3> QED
      BY <2>4, <2>5, <3>2, <3>3, <3>4 DEF ListHeard
  <2> QED
    BY <2>3, <2>6, <2>7
<1> QED
  BY <1>6, <1>7, <1>8 DEF Hears

LEMMA OthersList ==
    ASSUME ListsInv, RowsOn(execs, execs'), net' \subseteq net, UNCHANGED <<script, log, job>>,
           \A d \in Client : \/ stream'[d] = stream[d]
                             \/ stream'[d].st = "answered" /\ stream'[d].code = "Unavailable"
    PROVE  ListsInv'
<1>1. ListLogInv'
  BY ListLogKept DEF ListsInv
<1>2. ASSUME NEW d \in Client PROVE ListHas(d)'
  <2>1. SteadyJob(d) /\ ListHas(d)
    BY DEF SteadyJob, ListsInv, ListInv
  <2>2. \/ stream'[d] = stream[d] /\ \A m \in net' : m.c = d => m \in net
        \/ stream'[d].st = "answered" /\ stream'[d].code # "OK"
    OBVIOUS
  <2> QED
    BY <2>1, <2>2, ListerWaits
<1> QED
  BY <1>1, <1>2 DEF ListsInv, ListInv

(* A call goes on, or returns.                                             *)
MayGoOn(c, j) ==
    Listing(c) => Halfway(j.got, j.was, NsOf(c), Doing(c).filter, j.token)

MayList(c, code, j) ==
    Listing(c) /\ code = "OK" => Whole(j.got, j.was, NsOf(c), Doing(c).filter)

LEMMA OtherListers ==
    ASSUME SendsInv, ListsInv, RowsOn(execs, execs'), NEW c \in Client, Closed(c), Rest,
           \A d \in Client \ {c} : job'[d] = job[d],
           Listing(c)' => ListHolds(c)'
    PROVE  ListInv'
<1>1. script' = script /\ net' = net
  BY DEF Rest
<1>2. ListHas(c)'
  <2>1. stream'[c].st = "closed"
    BY ClosedIs
  <2> QED
    BY <2>1 DEF ListHas, ListAwaits, ListHeard
<1>3. ASSUME NEW d \in Client, d # c PROVE ListHas(d)'
  <2>1. SteadyJob(d) /\ stream'[d] = stream[d] /\ \A m \in net' : m.c = d => m \in net
    BY <1>1, <1>3, ClosedIs DEF SteadyJob
  <2>2. ListHas(d)
    BY DEF ListsInv, ListInv
  <2> QED
    BY <2>1, <2>2, ListerWaits
<1> QED
  BY <1>2, <1>3 DEF ListInv

LEMMA TurnLists ==
    ASSUME SendsInv, ListsInv, RowsOn(execs, execs'), NEW c \in Client, NEW j,
           j.at = job[c].at, MayGoOn(c, j), Continue(c, j)
    PROVE  ListsInv'
<1>1. /\ Closed(c) /\ Rest /\ log' = log /\ script' = script /\ job'[c] = j
      /\ \A d \in Client \ {c} : job'[d] = job[d]
  BY DEF Continue, SendsInv, JobInv, Rest
<1>2. Listing(c)' = Listing(c) /\ Doing(c)' = Doing(c) /\ NsOf(c)' = NsOf(c)
  BY <1>1, SteadyCall
<1>3. Listing(c)' => ListHolds(c)'
  <2>1. PICK got, was, ns, filter, token :
           /\ got = j.got /\ was = j.was /\ token = j.token /\ ns = NsOf(c)
           /\ filter = Doing(c).filter
    OBVIOUS
  <2>2. Listing(c) => Halfway(got, was, ns, filter, token)'
    BY <2>1, HalfwayOn DEF MayGoOn
  <2> QED
    BY <1>1, <1>2, <2>1, <2>2 DEF ListHolds
<1>4. ListInv'
  BY <1>1, <1>3, OtherListers
<1>5. ListLogInv'
  BY <1>1, ListLogKept DEF ListsInv
<1> QED
  BY <1>4, <1>5 DEF ListsInv

LEMMA NewJobLists ==
    ASSUME NEW c, NEW n, NEW handle, job'[c] = NewJob(n, handle)
    PROVE  ListHolds(c)'
<1>1. job'[c].got = << >> /\ job'[c].token = << >> /\ job'[c].was = {}
  <2>1. PICK row : row = NewJob(n, handle)
    OBVIOUS
  <2>2. row.got = << >> /\ row.token = << >> /\ row.was = {}
    BY <2>1 DEF NewJob
  <2> QED
    BY <2>1, <2>2
<1>2. IsTable(<< >>)
  BY DEF IsTable
<1> QED
  BY <1>1, <1>2 DEF ListHolds, Halfway

(* The log has one more entry.                                             *)
LEMMA LogAdded ==
    ASSUME SendsInv, NEW c \in Client, Busy(c), NEW e,
           log' = [log EXCEPT ![c] = Append(log[c], e)]
    PROVE  /\ \A d \in Client \ {c} : log'[d] = log[d]
           /\ \A i \in DOMAIN log'[c] : \/ i \in DOMAIN log[c] /\ log'[c][i] = log[c][i]
                                        \/ i = job[c].at /\ log'[c][i] = e
<1>1. /\ \A d \in Client \ {c} : log'[d] = log[d]
      /\ log'[c] = Append(log[c], e) /\ IsTable(log[c])
      /\ job[c].at = Len(log[c]) + 1
  BY DEF SendsInv, JobInv
<1>2. PICK s : s = Append(log[c], e)
  OBVIOUS
<1>3. /\ IsTable(s) /\ Len(s) = Len(log[c]) + 1
      /\ \A i \in 1 .. Len(log[c]) : s[i] = log[c][i]
      /\ s[Len(log[c]) + 1] = e
  BY <1>1, <1>2, TableAppend
<1>4. /\ DOMAIN s = 1 .. (Len(log[c]) + 1)
      /\ DOMAIN log[c] = 1 .. Len(log[c]) /\ Len(log[c]) \in Nat
  BY <1>1, <1>3, TableIs
<1> QED
  BY <1>1, <1>2, <1>3, <1>4

LEMMA FinishLists ==
    ASSUME SendsInv, ListsInv, RowsOn(execs, execs'), NEW c \in Client, Busy(c),
           NEW code, NEW j, NEW handle, MayList(c, code, j), Finish(c, code, j, handle)
    PROVE  ListsInv'
<1>1. PICK n : job' = [job EXCEPT ![c] = NewJob(n, handle)] /\ Closed(c) /\ Rest
  BY DEF Finish
<1>2. /\ job'[c] = NewJob(n, handle) /\ \A d \in Client \ {c} : job'[d] = job[d]
      /\ script' = script
  BY <1>1 DEF SendsInv, JobInv, Rest
<1>3. ListHolds(c)'
  BY <1>2, NewJobLists
<1>4. ListInv'
  BY <1>1, <1>2, <1>3, OtherListers
<1>5. PICK e : /\ e.code = code /\ e.got = j.got /\ e.was = j.was
               /\ log' = [log EXCEPT ![c] = Append(log[c], e)]
  BY DEF Finish
<1>6. /\ \A d \in Client \ {c} : log'[d] = log[d]
      /\ \A i \in DOMAIN log'[c] : \/ i \in DOMAIN log[c] /\ log'[c][i] = log[c][i]
                                   \/ i = job[c].at /\ log'[c][i] = e
  BY <1>5, LogAdded
<1>7. ASSUME NEW d \in Client, NEW i \in DOMAIN log'[d],
             script[d][i].do = "list", log'[d][i].code = "OK"
      PROVE  Whole(log'[d][i].got, log'[d][i].was, NsOf(d), script[d][i].filter)
  <2>1. CASE i \in DOMAIN log[d] /\ log'[d][i] = log[d][i]
    BY <1>7, <2>1 DEF ListsInv, ListLogInv
  <2>2. CASE d = c /\ i = job[c].at /\ log'[c][i] = e
    <3>1. Listing(c) /\ code = "OK" /\ script[d][i] = Doing(c)
      BY <1>5, <1>7, <2>2 DEF Listing, Doing
    <3> QED
      BY <1>5, <2>2, <3>1 DEF MayList
  <2> QED
    BY <1>6, <2>1, <2>2
<1>8. ListLogInv'
  <2> SUFFICES ASSUME NEW d \in Client, NEW i \in DOMAIN log'[d],
                      script'[d][i].do = "list", log'[d][i].code = "OK"
               PROVE  Whole(log[d][i].got, log[d][i].was, NsOf(d), script[d][i].filter)'
    BY DEF ListLogInv
  <2>1. PICK s, was, ns, filter :
           /\ s = log'[d][i].got /\ was = log'[d][i].was /\ ns = NsOf(d)
           /\ filter = script[d][i].filter
    OBVIOUS
  <2>2. IsTable(s) /\ Through(s, was, ns, filter, << >>)
    BY <1>2, <1>7, <2>1 DEF Whole
  <2>3. Through(s, was, ns, filter, << >>)'
    BY <2>2, ThroughOn
  <2>4. NsOf(d)' = ns /\ script'[d][i].filter = filter
    BY <1>2, <2>1 DEF NsOf
  <2> QED
    BY <2>1, <2>2, <2>3, <2>4 DEF Whole
<1> QED
  BY <1>4, <1>8 DEF ListsInv

LEMMA ReturnLists ==
    ASSUME SendsInv, ListsInv, RowsOn(execs, execs'), NEW c \in Client, Return(c)
    PROVE  ListsInv'
<1>1. Busy(c) /\ stream[c].st = "answered" /\ JobColumns \subseteq DOMAIN job[c]
  BY DEF Return, CallReturns, GetDescribed, HistoryPaged, ListPaged, CallFails, CallAgain,
     Back, SendsInv, JobInv
<1>2. ASSUME NEW j, j.at = job[c].at, MayGoOn(c, j), Continue(c, j) PROVE ListsInv'
  BY <1>2, TurnLists
<1>3. ASSUME NEW code, NEW j, NEW handle, MayList(c, code, j), Finish(c, code, j, handle)
      PROVE  ListsInv'
  BY <1>1, <1>3, FinishLists
<1>4. Listing(c) => ListHolds(c) /\ ListHeard(c)
  BY DEF ListsInv, ListInv, ListHas
<1>5. ASSUME ~Listing(c) PROVE \A code, j : MayGoOn(c, j) /\ MayList(c, code, j)
  BY <1>5 DEF MayGoOn, MayList
<1>6. CASE CallReturns(c)
  <2>1. ~Listing(c)
    BY <1>6 DEF CallReturns, Back, Listing
  <2>2. PICK j, handle : Finish(c, stream[c].code, j, handle)
    BY <1>6 DEF CallReturns, Answered
  <2> QED
    BY <1>3, <1>5, <2>1, <2>2
<1>7. CASE GetDescribed(c)
  <2>1. ~Listing(c)
    BY <1>7 DEF GetDescribed, Back, Listing
  <2>2. PICK j : j = [job[c] EXCEPT !.settled = stream[c].val.run,
                                    !.status = stream[c].val.status]
    OBVIOUS
  <2>3. \/ Continue(c, [j EXCEPT !.stage = "fetch"])
        \/ Finish(c, "Unsuccessful", j, stream[c].val.run)
        \/ Continue(c, [job[c] EXCEPT !.run = NoRun])
        \/ Continue(c, [job[c] EXCEPT !.run = stream[c].val.run])
    BY <1>7, <2>2 DEF GetDescribed
  <2>4. JobColumns \subseteq DOMAIN j /\ j.at = job[c].at
    BY <1>1, <2>2 DEF JobColumns
  <2>5. ASSUME NEW v
        PROVE  [j EXCEPT !.stage = v].at = job[c].at /\ [job[c] EXCEPT !.run = v].at = job[c].at
    BY <1>1, <2>4 DEF JobColumns
  <2> QED
    BY <1>2, <1>3, <1>5, <2>1, <2>3, <2>4, <2>5
<1>8. CASE HistoryPaged(c)
  <2>1. ~Listing(c)
    BY <1>8 DEF HistoryPaged, Back, Listing
  <2>2. PICK j : j = [job[c] EXCEPT !.got = job[c].got \o stream[c].val.events,
                                    !.token = stream[c].val.token]
    OBVIOUS
  <2>3. Continue(c, j) \/ \E code, handle : Finish(c, code, j, handle)
    BY <1>8, <2>2 DEF HistoryPaged
  <2>4. j.at = job[c].at
    BY <1>1, <2>2 DEF JobColumns
  <2> QED
    BY <1>2, <1>3, <1>5, <2>1, <2>3, <2>4
<1>9. CASE ListPaged(c)
  <2>1. PICK runs, token, j :
           /\ runs = stream[c].val.runs /\ token = stream[c].val.token
           /\ j = [job[c] EXCEPT !.got = job[c].got \o runs, !.token = token]
    OBVIOUS
  <2>2. \/ token # << >> /\ Continue(c, j)
        \/ token = << >> /\ \E handle : Finish(c, "OK", j, handle)
    BY <1>9, <2>1 DEF ListPaged, LastPage
  <2>3. /\ j.at = job[c].at /\ j.was = job[c].was /\ j.got = job[c].got \o runs
        /\ j.token = token
    BY <1>1, <2>1 DEF JobColumns
  <2>4. ASSUME Listing(c)
        PROVE  /\ IsTable(j.got)
               /\ Through(j.got, j.was, NsOf(c), Doing(c).filter, token)
               /\ \A w \in j.was : Seen(w, NsOf(c), Doing(c).filter)
    <3>1. stream[c].code = "OK"
      BY <1>9 DEF ListPaged, Answered
    <3>2. IsListPage(c, runs, token) /\ ListHolds(c)
      BY <1>1, <1>4, <2>1, <2>4, <3>1 DEF ListHeard
    <3>3. IsTable(job[c].got) /\ IsTable(runs)
      BY <3>2 DEF ListHolds, Halfway, IsListPage
    <3>4. IsTable(job[c].got \o runs)
      BY <3>3, ConcatIs
    <3>5. Through(j.got, j.was, NsOf(c), Doing(c).filter, token)
      BY <2>3, <3>2 DEF IsListPage
    <3> QED
      BY <2>3, <3>4, <3>5 DEF Through
  <2>5. CASE token # << >>
    <3>1. MayGoOn(c, j)
      BY <2>3, <2>4, <2>5 DEF MayGoOn, Halfway
    <3> QED
      BY <1>2, <2>2, <2>3, <2>5, <3>1
  <2>6. CASE token = << >>
    <3>1. \A code : MayList(c, code, j)
      BY <2>4, <2>6 DEF MayList, Whole
    <3> QED
      BY <1>3, <2>2, <2>6, <3>1
  <2> QED
    BY <2>5, <2>6
<1>10. CASE CallFails(c)
  <2>1. Finish(c, stream[c].code, job[c], job[c].handle) /\ stream[c].code # "OK"
    BY <1>10 DEF CallFails, Answered
  <2> QED
    BY <1>3, <2>1 DEF MayList
<1>11. CASE CallAgain(c)
  <2>1. PICK sends, anew :
           /\ anew = [NewJob(job[c].at, job[c].handle) EXCEPT !.sends = sends]
           /\ \/ Doing(c).do # "list" /\ Continue(c, anew)
              \/ Continue(c, [job[c] EXCEPT !.sends = sends])
              \/ Finish(c, "Unavailable", job[c], job[c].handle)
    BY <1>11 DEF CallAgain
  <2>2. CASE Doing(c).do # "list" /\ Continue(c, anew)
    <3>1. anew.at = job[c].at /\ ~Listing(c)
      BY <2>1, <2>2 DEF NewJob, Listing
    <3> QED
      BY <1>2, <1>5, <2>2, <3>1
  <2>3. CASE Continue(c, [job[c] EXCEPT !.sends = sends])
    <3>1. PICK j : j = [job[c] EXCEPT !.sends = sends]
      OBVIOUS
    <3>2. /\ j.at = job[c].at /\ j.got = job[c].got /\ j.was = job[c].was
          /\ j.token = job[c].token
      BY <1>1, <3>1 DEF JobColumns
    <3>3. MayGoOn(c, j)
      BY <1>4, <3>2 DEF MayGoOn, ListHolds
    <3> QED
      BY <1>2, <2>3, <3>1, <3>2, <3>3
  <2>4. CASE Finish(c, "Unavailable", job[c], job[c].handle)
    BY <1>3, <2>4 DEF MayList
  <2> QED
    BY <2>1, <2>2, <2>3, <2>4
<1> QED
  BY <1>6, <1>7, <1>8, <1>9, <1>10, <1>11 DEF Return

LEMMA ListsInvStep ==
    RunsInv /\ SendsInv /\ NumbersInv /\ ListsInv /\ [Next]_vars => ListsInv'
<1> SUFFICES ASSUME RunsInv, SendsInv, NumbersInv, ListsInv, [Next]_vars PROVE ListsInv'
  OBVIOUS
<1>1. SendsInv' /\ RowsOn(execs, execs')
  BY SendsInvStep, NextOn
<1>2. CASE Done \/ UNCHANGED vars
  <2>1. UNCHANGED <<net, stream, script, log, job>>
    BY <1>2 DEF Done, vars
  <2> QED
    BY <1>1, <2>1, OthersList
<1>3. CASE (\E c \in Client : OutcomeUnknown(c)) \/ (\E m \in net : RequestLost(m))
  <2>1. net' \subseteq net /\ UNCHANGED <<script, log, job>>
    BY <1>3 DEF OutcomeUnknown, RequestLost
  <2>2. \A d \in Client : \/ stream'[d] = stream[d]
                          \/ stream'[d].st = "answered" /\ stream'[d].code = "Unavailable"
    BY <1>3, NetworkFaults
  <2> QED
    BY <1>1, <2>1, <2>2, OthersList
<1>4. CASE \E r \in DOMAIN execs : Worker(r)
  <2>1. UNCHANGED <<net, stream, script, log, job>>
    BY <1>4 DEF Worker, Work, WorkflowTaskProgress, WorkflowCompletes, WorkflowFails, CloseBy,
       ContinueWorkflowAsNew
  <2> QED
    BY <1>1, <2>1, OthersList
<1> QED
  BY <1>1, <1>2, <1>3, <1>4, InvokeLists, ReturnLists, ServeLists DEF Next

LEMMA ListsInvInit == Init => ListsInv
<1> SUFFICES ASSUME Init PROVE ListsInv
  OBVIOUS
<1>1. \A c \in Client : /\ stream[c].st = "closed" /\ log[c] = << >>
                        /\ job[c] = NewJob(1, NoRun)
  BY DEF Init
<1>2. PICK row : row = NewJob(1, NoRun)
  OBVIOUS
<1>3. row.got = << >> /\ row.token = << >> /\ row.was = {}
  BY <1>2 DEF NewJob
<1>4. IsTable(<< >>)
  BY DEF IsTable
<1>5. ASSUME NEW c \in Client PROVE ListHas(c)
  BY <1>1, <1>2, <1>3, <1>4 DEF ListHas, ListHolds, Halfway, ListAwaits, ListHeard
<1>6. ListLogInv
  BY <1>1 DEF ListLogInv
<1> QED
  BY <1>5, <1>6 DEF ListsInv, ListInv

LEMMA WholeListings == RunsInv /\ NumbersInv /\ ListsInv => ListedOnce
<1> SUFFICES ASSUME RunsInv, NumbersInv, ListsInv PROVE ListedOnce
  OBVIOUS
<1> DEFINE Fine(s, was, filter) ==
              /\ \A a, b \in DOMAIN s : s[a] = s[b] => a = b
              /\ \A w \in was : filter = "" \/ Closings(w.run) = w.closings
                                   => \E a \in DOMAIN s : s[a] = w.run
<1>1. SUFFICES ASSUME NEW c \in Client, NEW i \in Logged(c, "list"), log[c][i].code = "OK"
               PROVE  Fine(log[c][i].got, log[c][i].was, script[c][i].filter)
  BY DEF ListedOnce
<1>2. PICK s, was, filter :
          s = log[c][i].got /\ was = log[c][i].was /\ filter = script[c][i].filter
  OBVIOUS
<1>3. PICK ns : ns = NsOf(c)
  OBVIOUS
<1>4. IsTable(s) /\ Through(s, was, ns, filter, << >>)
  BY <1>1, <1>2, <1>3 DEF Logged, ListsInv, ListLogInv, Whole
<1>5. \A w \in was : Steady(w, filter) => Shows(s, w.run)
  BY <1>4 DEF Through, Covers
<1>6. ASSUME NEW a \in DOMAIN s, NEW b \in DOMAIN s, s[a] = s[b] PROVE a = b
  <2>1. DOMAIN s \subseteq Nat
    BY <1>4, TableIs
  <2>2. s[a] \in DOMAIN execs /\ InOrder(s)
    BY <1>4, <1>6 DEF Through, RowList
  <2>3. ~Before(s[a], s[a])
    BY <2>2, ListingOrder DEF NumbersInv
  <2>4. ~(a < b) /\ ~(b < a)
    BY <1>6, <2>2, <2>3 DEF InOrder
  <2> QED
    BY <2>1, <2>4
<1>7. Fine(s, was, filter)
  BY <1>5, <1>6 DEF Steady, Shows
<1> QED
  BY <1>2, <1>7

(* A listing that was paged to its end shows no run twice, and every run   *)
(* that was there at its first page and was not closed since, while runs   *)
(* start and close between the pages (ListWorkflowExecutions' order and    *)
(* its cursor over start time, workflow id and run id).                    *)
THEOREM ListingsAreComplete == Spec => []ListedOnce
<1>1. Init => RunsInv /\ SendsInv /\ NumbersInv /\ ListsInv
  BY RunsInvInit, SendsInvInit, NumbersInvInit, ListsInvInit
<1>2. RunsInv /\ SendsInv /\ NumbersInv /\ ListsInv /\ [Next]_vars
         => (RunsInv /\ SendsInv /\ NumbersInv /\ ListsInv)'
  BY RunsInvStep, SendsInvStep, NumbersInvStep, ListsInvStep
<1>3. RunsInv /\ SendsInv /\ NumbersInv /\ ListsInv => ListedOnce
  BY WholeListings
<1> QED
  BY <1>1, <1>2, <1>3, PTL DEF Spec

-----------------------------------------------------------------------------
(* The runs a Get may come to.                                             *)

(* A completed run has its result in its history.                          *)
ResultsInv == \A r \in DOMAIN execs : execs[r].status = "COMPLETED" => HasResult(execs[r].hist)

InSlot(slot, r) == r \in DOMAIN execs /\ execs[r].slot = slot

(* r is a run of the workflow, and none before the one asked about.        *)
Reaches(slot, handle, r) ==
    InSlot(slot, r) /\ handle \in 0 .. r /\ (handle = NoRun \/ InSlot(slot, handle))

(* What a Describe has told of a run.                                      *)
Described(slot, handle, r, status) ==
    /\ Reaches(slot, handle, r)
    /\ status = "COMPLETED" => HasResult(execs[r].hist)
    /\ status # "RUNNING" => execs[r].status # "RUNNING"

Ended(slot, handle, r, status) ==
    Reaches(slot, handle, r) /\ execs[r].status # "RUNNING" /\ status # "CONTINUED_AS_NEW"

LEMMA ResultStays ==
    ASSUME NEW s, NEW t, Begins(s, t), HasResult(s)
    PROVE  HasResult(t)
<1>1. DOMAIN s = 1 .. Len(s) /\ DOMAIN t = 1 .. Len(t) /\ Len(s) \in Nat /\ Len(t) \in Nat
  BY TableIs DEF Begins
<1>2. DOMAIN s \subseteq DOMAIN t /\ \A i \in DOMAIN s : t[i] = s[i]
  BY <1>1 DEF Begins
<1> QED
  BY <1>2 DEF HasResult

LEMMA ResultsOn ==
    ASSUME ResultsInv, RowsOn(execs, execs'), Longer(execs, execs')
    PROVE  ResultsInv'
<1> SUFFICES ASSUME NEW r \in DOMAIN execs', execs'[r].status = "COMPLETED"
             PROVE  HasResult(execs'[r].hist)
  BY DEF ResultsInv, HasResult
<1>1. CASE r \in DOMAIN execs
  <2>1. RowOn(execs[r], execs'[r]) /\ Begins(execs[r].hist, execs'[r].hist)
    BY <1>1 DEF RowsOn, Longer
  <2>2. execs[r].status = "COMPLETED" => HasResult(execs[r].hist)
    BY <1>1 DEF ResultsInv
  <2> QED
    BY <2>1, <2>2, ResultStays DEF RowOn
<1>2. CASE r \notin DOMAIN execs
  BY <1>2 DEF RowsOn, NewRow
<1> QED
  BY <1>1, <1>2

LEMMA ReachesOn ==
    ASSUME RowsOn(execs, execs'), Longer(execs, execs'), NEW slot, NEW handle, NEW r
    PROVE  /\ InSlot(slot, r) => InSlot(slot, r)'
           /\ Reaches(slot, handle, r) => Reaches(slot, handle, r)'
           /\ InSlot(slot, r) /\ HasResult(execs[r].hist) => HasResult(execs'[r].hist)
           /\ InSlot(slot, r) /\ execs[r].status # "RUNNING" => execs'[r].status # "RUNNING"
<1>1. \A x : InSlot(slot, x) => InSlot(slot, x)'
  BY DEF InSlot, Longer
<1>2. InSlot(slot, r) => RowOn(execs[r], execs'[r]) /\ Begins(execs[r].hist, execs'[r].hist)
  BY DEF RowsOn, Longer, InSlot
<1>3. InSlot(slot, r) /\ HasResult(execs[r].hist) => HasResult(execs'[r].hist)
  BY <1>2, ResultStays
<1> QED
  BY <1>1, <1>2, <1>3 DEF RowOn, Reaches

LEMMA DescribedOn ==
    ASSUME RowsOn(execs, execs'), Longer(execs, execs'), NEW slot, NEW handle, NEW r, NEW status
    PROVE  /\ Described(slot, handle, r, status) => Described(slot, handle, r, status)'
           /\ Ended(slot, handle, r, status) => Ended(slot, handle, r, status)'
<1>1. Reaches(slot, handle, r) => InSlot(slot, r)
  BY DEF Reaches
<1> QED
  BY <1>1, ReachesOn DEF Described, Ended, HasResult

(* A Get that still describes; one that reads the history it settled on.   *)
Fetching(c) == Busy(c) /\ Doing(c).do = "get" /\ job[c].stage = "fetch"

CallSlot(c) == <<NamespaceOrDefault(Options[c].ns), Doing(c).wf>>

(* The run that is described next, none standing for the current one.      *)
Aims(slot, handle, run) ==
    \/ run = handle
    \/ run = NoRun /\ InSlot(slot, handle)
    \/ Reaches(slot, handle, run)

DescribeAsks(c, m) == m.rpc = "Describe" /\ m.run = job[c].run /\ Slot(m) = CallSlot(c)

DescribeAwaits(c) ==
    stream[c].st = "open" => \A m \in net : m.c = c /\ m.k = stream[c].k => DescribeAsks(c, m)

DescribeHeard(c) ==
    stream[c].st = "answered" /\ stream[c].code = "OK"
        => Described(CallSlot(c), job[c].handle, stream[c].val.run, stream[c].val.status)

(* A completed run is read, and its result is among the events that were   *)
(* there when the first page was asked for.                                *)
Settled(slot, handle, r, status) ==
    /\ Reaches(slot, handle, r) /\ status = "COMPLETED"
    /\ execs[r].status # "RUNNING" /\ HasResult(execs[r].hist)

ResultAmong(was, h) == \E i \in was : i \in DOMAIN h /\ h[i].type = "Completed"

Promised(c) ==
    stream[c].st # "closed" \/ job[c].token # << >> => ResultAmong(job[c].was, Read(c))

(* The codes of the SDK's own are not the server's.                        *)
OwnCodes == {"Unsuccessful", "NoResult"}

GetHas(c) ==
    /\ Busy(c) /\ stream[c].st = "answered" => stream[c].code \notin OwnCodes
    /\ Describing(c) => /\ Aims(CallSlot(c), job[c].handle, job[c].run)
                        /\ DescribeAwaits(c) /\ DescribeHeard(c)
    /\ Fetching(c) => /\ Settled(CallSlot(c), job[c].handle, job[c].settled, job[c].status)
                      /\ Promised(c)

GetInv == \A c \in Client : GetHas(c)

GetLogInv ==
    \A c \in Client : \A i \in DOMAIN log[c] :
        script[c][i].do = "get" =>
            /\ log[c][i].code # "NoResult"
            /\ log[c][i].code \in {"OK", "Unsuccessful"} =>
                  \E slot : Ended(slot, log[c][i].handle, log[c][i].run, log[c][i].status)

GetsInv == GetInv /\ GetLogInv

LEMMA SteadyGet ==
    ASSUME script' = script, NEW c, job'[c].at = job[c].at
    PROVE  /\ Doing(c)' = Doing(c) /\ Busy(c)' = Busy(c) /\ CallSlot(c)' = CallSlot(c)
           /\ job'[c].stage = job[c].stage =>
                  Describing(c)' = Describing(c) /\ Fetching(c)' = Fetching(c)
BY DEF Doing, Busy, Describing, Fetching, CallSlot

LEMMA AimsOn ==
    ASSUME RowsOn(execs, execs'), Longer(execs, execs'), NEW slot, NEW handle, NEW run
    PROVE  Aims(slot, handle, run) => Aims(slot, handle, run)'
BY ReachesOn DEF Aims

LEMMA SettledOn ==
    ASSUME RowsOn(execs, execs'), Longer(execs, execs'), NEW slot, NEW handle, NEW r, NEW status,
           Settled(slot, handle, r, status)
    PROVE  Settled(slot, handle, r, status)'
<1>1. Reaches(slot, handle, r) /\ InSlot(slot, r)
  BY DEF Settled, Reaches
<1>2. Reaches(slot, handle, r)' /\ HasResult(execs'[r].hist) /\ execs'[r].status # "RUNNING"
  BY <1>1, ReachesOn DEF Settled
<1> QED
  BY <1>2 DEF Settled, HasResult

LEMMA ResultAmongOn ==
    ASSUME NEW was, NEW s, NEW t, Begins(s, t), ResultAmong(was, s)
    PROVE  ResultAmong(was, t)
<1>1. DOMAIN s = 1 .. Len(s) /\ DOMAIN t = 1 .. Len(t) /\ Len(s) \in Nat /\ Len(t) \in Nat
  BY TableIs DEF Begins
<1>2. DOMAIN s \subseteq DOMAIN t /\ \A i \in DOMAIN s : t[i] = s[i]
  BY <1>1 DEF Begins
<1> QED
  BY <1>2 DEF ResultAmong

(* The caller is told something.                                           *)
Told(c) ==
    /\ stream[c].st = "answered" /\ stream[c].code \notin OwnCodes
    /\ Describing(c) => DescribeHeard(c)

(* A caller whose stream does not move, or who is answered.                *)
LEMMA GetterWaits ==
    ASSUME HistInv', RowsOn(execs, execs'), Longer(execs, execs'), NEW c, SteadyJob(c), GetHas(c),
           \/ stream'[c] = stream[c] /\ \A m \in net' : m.c = c => m \in net
           \/ stream[c].st = "open" /\ Told(c)'
    PROVE  GetHas(c)'
<1>1. /\ Doing(c)' = Doing(c) /\ Busy(c)' = Busy(c) /\ CallSlot(c)' = CallSlot(c)
      /\ Describing(c)' = Describing(c) /\ Fetching(c)' = Fetching(c)
  BY SteadyGet DEF SteadyJob
<1>2. PICK slot, handle, run, settled, status :
         /\ slot = CallSlot(c) /\ handle = job[c].handle /\ run = job[c].run
         /\ settled = job[c].settled /\ status = job[c].status
  OBVIOUS
<1>3. ASSUME Fetching(c)
      PROVE  Settled(CallSlot(c), job[c].handle, job[c].settled, job[c].status)' /\ Promised(c)'
  <2>1. Settled(slot, handle, settled, status)
    BY <1>2, <1>3 DEF GetHas
  <2>2. Settled(slot, handle, settled, status)'
    BY <2>1, SettledOn
  <2>3. Begins(Read(c), Read(c)')
    BY ReadGrows DEF SteadyJob
  <2>4. PICK s, t, was : s = Read(c) /\ t = Read(c)' /\ was = job[c].was
    OBVIOUS
  <2>5. ResultAmong(was, s) => ResultAmong(was, t)
    BY <2>3, <2>4, ResultAmongOn
  <2>6. Promised(c) /\ job'[c] = job[c]
    BY <1>3 DEF GetHas, SteadyJob
  <2>7. stream'[c].st # "closed" => stream[c].st # "closed"
    BY DEF Told
  <2>8. stream'[c].st # "closed" \/ job[c].token # << >> => ResultAmong(was, t)
    BY <2>4, <2>5, <2>6, <2>7 DEF Promised
  <2>9. Promised(c)'
    BY <2>4, <2>6, <2>8 DEF Promised, ResultAmong
  <2> QED
    BY <1>1, <1>2, <2>2, <2>6, <2>9 DEF SteadyJob
<1>4. ASSUME Describing(c)
      PROVE  Aims(CallSlot(c), job[c].handle, job[c].run)' /\ DescribeAwaits(c)' /\ DescribeHeard(c)'
  <2>1. Aims(slot, handle, run)'
    BY <1>2, <1>4, AimsOn DEF GetHas
  <2>2. Aims(CallSlot(c), job[c].handle, job[c].run)'
    BY <1>1, <1>2, <2>1 DEF SteadyJob
  <2>3. DescribeAwaits(c) /\ DescribeHeard(c)
    BY <1>4 DEF GetHas
  <2>4. CASE stream'[c] = stream[c] /\ \A m \in net' : m.c = c => m \in net
    <3>1. \A m : DescribeAsks(c, m) => DescribeAsks(c, m)'
      BY <1>1 DEF DescribeAsks, SteadyJob, Slot
    <3>2. DescribeAwaits(c)'
      BY <2>3, <2>4, <3>1 DEF DescribeAwaits
    <3>3. PICK r, st : r = stream[c].val.run /\ st = stream[c].val.status
      OBVIOUS
    <3>4. Described(slot, handle, r, st) => Described(slot, handle, r, st)'
      BY DescribedOn
    <3>5. DescribeHeard(c)'
      BY <1>1, <1>2, <2>3, <2>4, <3>3, <3>4 DEF DescribeHeard, SteadyJob
    <3> QED
      BY <2>2, <3>2, <3>5
  <2>5. CASE stream[c].st = "open" /\ Told(c)'
    BY <1>1, <1>4, <2>2, <2>5 DEF DescribeAwaits, Told
  <2> QED
    BY <2>4, <2>5
<1>5. Busy(c)' /\ stream'[c].st = "answered" => stream'[c].code \notin OwnCodes
  BY <1>1 DEF GetHas, Told, OwnCodes
<1> QED
  BY <1>1, <1>3, <1>4, <1>5 DEF GetHas, OwnCodes

LEMMA GetLogKept ==
    ASSUME RowsOn(execs, execs'), Longer(execs, execs'), UNCHANGED <<script, log>>, GetLogInv
    PROVE  GetLogInv'
<1> SUFFICES ASSUME NEW c \in Client, NEW i \in DOMAIN log[c], script[c][i].do = "get"
             PROVE  /\ log[c][i].code # "NoResult"
                    /\ log[c][i].code \in {"OK", "Unsuccessful"} =>
                          \E slot : Ended(slot, log[c][i].handle, log[c][i].run, log[c][i].status)'
  BY DEF GetLogInv
<1>1. PICK handle, r, status :
         handle = log[c][i].handle /\ r = log[c][i].run /\ status = log[c][i].status
  OBVIOUS
<1>2. \A slot : Ended(slot, handle, r, status) => Ended(slot, handle, r, status)'
  BY DescribedOn
<1>3. /\ log[c][i].code # "NoResult"
      /\ log[c][i].code \in {"OK", "Unsuccessful"} =>
            \E slot : Ended(slot, log[c][i].handle, log[c][i].run, log[c][i].status)
  BY DEF GetLogInv
<1>4. \A slot : Ended(slot, handle, r, status)' <=>
                   Ended(slot, log[c][i].handle, log[c][i].run, log[c][i].status)'
  BY <1>1 DEF Ended, Reaches, InSlot
<1> QED
  BY <1>1, <1>2, <1>3, <1>4

LEMMA ReadSettled ==
    ASSUME NEW c, Fetching(c), NEW handle, NEW r, r = job[c].settled, NEW status,
           Settled(CallSlot(c), handle, r, status)
    PROVE  Read(c) = execs[r].hist /\ HasResult(Read(c)) /\ ResultAmong(DOMAIN Read(c), Read(c))
<1>1. InSlot(CallSlot(c), r) /\ HasResult(execs[r].hist)
  BY DEF Settled, Reaches
<1>2. HistoryRun(c) = r
  BY DEF Fetching, HistoryRun
<1>3. Read(c) = execs[r].hist
  BY <1>1, <1>2 DEF Read, HistoryOf, InSlot, CallSlot
<1> QED
  BY <1>1, <1>3 DEF HasResult, ResultAmong

(* A call sends a request: a Describe, or one for a page.                  *)
LEMMA InvokeGets ==
    ASSUME SendsInv, SendsInv', GetsInv, RowsOn(execs, execs'), Longer(execs, execs'),
           NEW c \in Client, Invoke(c)
    PROVE  GetsInv'
<1>1. PICK s : SendsOne(c, s)
  BY InvokeSends
<1>2. /\ execs' = execs /\ script' = script /\ log' = log /\ HistInv'
      /\ net' = net \cup {s} /\ s.c = c
      /\ \A d \in Client \ {c} : stream'[d] = stream[d]
      /\ stream'[c].st = "open" /\ stream'[c].k = s.k
  BY <1>1 DEF SendsOne, SendsInv
<1>3. GetLogInv'
  BY <1>2, GetLogKept DEF GetsInv
<1>4. \A d \in Client \ {c} : job'[d] = job[d]
  BY DEF Invoke, StartWorkflow, SignalWorkflow, CancelWorkflow, TerminateWorkflow,
     CreateNamespaceCall, ListNamespacesCall, DescribeWorkflow, GetWorkflowHistory,
     ListWorkflows, Sent, SendsInv, JobInv
<1>5. ASSUME NEW d \in Client, d # c PROVE GetHas(d)'
  <2>1. SteadyJob(d) /\ stream'[d] = stream[d] /\ \A n \in net' : n.c = d => n \in net
    BY <1>2, <1>4, <1>5 DEF SteadyJob
  <2>2. GetHas(d)
    BY DEF GetsInv, GetInv
  <2> QED
    BY <1>2, <2>1, <2>2, GetterWaits
<1>6. job'[c].at = job[c].at /\ job'[c].stage = job[c].stage
  <2>1. CASE job' = job
    BY <2>1
  <2>2. CASE \/ job' = [job EXCEPT ![c].sends = job[c].sends + 1]
             \/ \E was : job' = [job EXCEPT ![c].was = was]
    BY <2>2 DEF SendsInv, JobInv, JobColumns
  <2> QED
    BY <2>1, <2>2 DEF Invoke, StartWorkflow, SignalWorkflow, CancelWorkflow, TerminateWorkflow,
       CreateNamespaceCall, ListNamespacesCall, DescribeWorkflow, GetWorkflowHistory,
       ListWorkflows, Sent
<1>7. /\ Doing(c)' = Doing(c) /\ Busy(c)' = Busy(c) /\ CallSlot(c)' = CallSlot(c)
      /\ Describing(c)' = Describing(c) /\ Fetching(c)' = Fetching(c)
  BY <1>2, <1>6, SteadyGet
<1>8. GetHas(c)
  BY DEF GetsInv, GetInv
<1>9. ASSUME Describing(c)
      PROVE  /\ Aims(CallSlot(c), job[c].handle, job[c].run)'
             /\ DescribeAwaits(c)' /\ DescribeHeard(c)'
  <2>1. DescribeWorkflow(c)
    BY <1>9 DEF Describing, Invoke, StartWorkflow, SignalWorkflow, CancelWorkflow,
       TerminateWorkflow, CreateNamespaceCall, ListNamespacesCall, GetWorkflowHistory,
       ListWorkflows, May
  <2>2. PICK o, m : /\ o = Outgoing(c, "Describe")
                    /\ m = [o EXCEPT !.wf = Doing(c).wf, !.run = job[c].run]
    OBVIOUS
  <2>3. Send(c, m) /\ job' = job
    BY <1>9, <2>1, <2>2 DEF DescribeWorkflow, Describing
  <2>4. /\ m.c = c /\ m.rpc = "Describe" /\ m.ns = Options[c].ns /\ m.wf = Doing(c).wf
        /\ m.run = job[c].run
        /\ \/ m.k = stream[c].k + 1
           \/ m.k = stream[c].k /\ \A n \in net : ~(n.c = c /\ n.k = stream[c].k)
    BY <2>2 DEF Outgoing, Request
  <2>5. stream'[c].k = m.k /\ net' = net \cup {m}
    BY <2>3 DEF Send, SendsInv, StreamInv, StreamColumns
  <2>6. ASSUME NEW n \in net', n.c = c, n.k = m.k PROVE n = m
    <3>1. n \in net => n.k <= stream[c].k /\ stream[c].k \in Nat
      BY <2>6 DEF SendsInv, NetInv, StreamInv
    <3> QED
      BY <2>4, <2>5, <2>6, <3>1
  <2>7. Slot(m) = CallSlot(c) /\ Slot(m)' = Slot(m)
    BY <2>4 DEF Slot, CallSlot
  <2>8. DescribeAsks(c, m)'
    BY <1>7, <2>3, <2>4, <2>7 DEF DescribeAsks
  <2>9. DescribeAwaits(c)'
    BY <2>5, <2>6, <2>8 DEF DescribeAwaits
  <2>10. PICK slot, handle, run : slot = CallSlot(c) /\ handle = job[c].handle /\ run = job[c].run
    OBVIOUS
  <2>11. Aims(slot, handle, run)'
    BY <1>8, <1>9, <2>10, AimsOn DEF GetHas
  <2>12. Aims(CallSlot(c), job[c].handle, job[c].run)'
    BY <1>7, <2>3, <2>10, <2>11
  <2> QED
    BY <1>2, <2>9, <2>12 DEF DescribeHeard
<1>10. ASSUME Fetching(c)
       PROVE  /\ Settled(CallSlot(c), job[c].handle, job[c].settled, job[c].status)'
              /\ Promised(c)'
  <2>1. GetWorkflowHistory(c)
    BY <1>10 DEF Fetching, Invoke, StartWorkflow, SignalWorkflow, CancelWorkflow,
       TerminateWorkflow, CreateNamespaceCall, ListNamespacesCall, DescribeWorkflow,
       ListWorkflows, May
  <2>2. PICK was : /\ job' = [job EXCEPT ![c].was = was]
                   /\ was = IF job[c].token = << >> THEN DOMAIN Read(c) ELSE job[c].was
    BY <2>1 DEF GetWorkflowHistory, Read
  <2>3. /\ job'[c].was = was /\ job'[c].handle = job[c].handle
        /\ job'[c].settled = job[c].settled /\ job'[c].status = job[c].status
    BY <2>2 DEF SendsInv, JobInv, JobColumns
  <2>4. PICK slot, handle, r, status : /\ slot = CallSlot(c) /\ handle = job[c].handle
                                       /\ r = job[c].settled /\ status = job[c].status
    OBVIOUS
  <2>5. Settled(slot, handle, r, status)
    BY <1>8, <1>10, <2>4 DEF GetHas
  <2>6. Settled(slot, handle, r, status)'
    BY <2>5, SettledOn
  <2>7. ResultAmong(was, Read(c))
    <3>1. ResultAmong(DOMAIN Read(c), Read(c))
      BY <1>10, <2>4, <2>5, ReadSettled
    <3> QED
      BY <1>8, <1>10, <2>2, <3>1 DEF GetHas, Promised
  <2>8. Read(c)' = Read(c)
    BY <1>2, <1>7, <1>10, <2>3 DEF Fetching, Read, HistoryOf, HistoryRun
  <2>9. Promised(c)'
    BY <2>3, <2>7, <2>8 DEF Promised, ResultAmong
  <2> QED
    BY <1>7, <2>3, <2>4, <2>6, <2>9
<1>11. GetHas(c)'
  BY <1>2, <1>7, <1>9, <1>10 DEF GetHas
<1> QED
  BY <1>3, <1>5, <1>11 DEF GetsInv, GetInv

(* A Describe's answer.                                                    *)
LEMMA DescribeServes ==
    ASSUME RunsInv, ResultsInv, NEW m, NEW handle, Aims(Slot(m), handle, m.run),
           DescribeWorkflowExecution(m)
    PROVE  \E val : Answer(m, "OK", val) /\ Described(Slot(m), handle, val.run, val.status)
<1>1. PICK r, val : /\ r = TargetRun(m)
                    /\ val = [NoValue EXCEPT !.run = r, !.status = execs[r].status]
                    /\ Answer(m, "OK", val)
  BY DEF DescribeWorkflowExecution
<1>2. val.run = r /\ val.status = execs[r].status
  BY <1>1 DEF NoValue
<1>3. PICK slot : slot = Slot(m)
  OBVIOUS
<1>4. InSlot(slot, r)
  BY <1>1, <1>3 DEF DescribeWorkflowExecution, Found, InSlot
<1>5. DOMAIN execs = 1 .. Len(execs) /\ Len(execs) \in Nat
  BY TableIs DEF RunsInv
<1>6. CASE m.run # NoRun
  <2>1. r = m.run
    BY <1>1, <1>6 DEF TargetRun
  <2>2. Reaches(slot, handle, r)
    BY <1>3, <1>4, <1>5, <1>6, <2>1 DEF Aims, Reaches, InSlot
  <2> QED
    BY <1>1, <1>2, <1>3, <1>4, <2>2 DEF Described, ResultsInv, InSlot
<1>7. CASE m.run = NoRun
  <2>1. slot \in DOMAIN current /\ r = current[slot].run
    BY <1>1, <1>3, <1>4, <1>5, <1>7 DEF TargetRun, InSlot, NoRun
  <2>2. \A y \in DOMAIN execs : execs[y].slot = slot => y <= r
    BY <2>1 DEF RunsInv, CurrentInv
  <2>3. handle = NoRun \/ InSlot(slot, handle)
    BY <1>3, <1>7 DEF Aims, Reaches
  <2>4. handle \in 0 .. r
    BY <1>4, <1>5, <2>2, <2>3 DEF InSlot, NoRun
  <2> QED
    BY <1>1, <1>2, <1>3, <1>4, <2>3, <2>4 DEF Described, Reaches, ResultsInv, InSlot
<1> QED
  BY <1>6, <1>7

LEMMA ServerCodes ==
    ASSUME NEW m, Handle(m)
    PROVE  \E code, val : /\ Answer(m, code, val) /\ code \notin OwnCodes
                          /\ Refuse(m) => code # "OK"
<1>1. CASE Refuse(m)
  <2>1. PICK code : /\ Answer(m, code, NoValue)
                    /\ code \in {"Unauthenticated", "PermissionDenied", "InvalidArgument", "NotFound"}
    BY <1>1 DEF Refuse
  <2> QED
    BY <2>1 DEF OwnCodes
<1>2. CASE CreateNamespace(m) /\ ~Refuse(m)
  <2>1. PICK code : Answer(m, code, NoValue) /\ code \in {"InvalidArgument", "AlreadyExists", "OK"}
    BY <1>2 DEF CreateNamespace
  <2> QED
    BY <1>2, <2>1 DEF OwnCodes
<1>3. CASE ~Refuse(m) /\ ~CreateNamespace(m)
  <2>1. PICK code, val : Answer(m, code, val) /\ code \in {"OK", "AlreadyExists", "Aborted", "Internal"}
    BY <1>3 DEF Handle, Missing, ConflictsOut, StartReplayed, StartRefused,
       StartWorkflowExecution, SignalWorkflowExecution, RequestCancelWorkflowExecution,
       WakeWorkflowExecution, TerminateWorkflowExecution, ListNamespaces,
       DescribeWorkflowExecution, GetWorkflowExecutionHistory, ListWorkflowExecutions
  <2> QED
    BY <1>3, <2>1 DEF OwnCodes
<1> QED
  BY <1>1, <1>2, <1>3

LEMMA ServeGets ==
    ASSUME RunsInv, SendsInv, SendsInv', ResultsInv, GetsInv, RowsOn(execs, execs'),
           Longer(execs, execs'), NEW m \in net, Serve(m)
    PROVE  GetsInv'
<1>1. Handle(m) /\ UNCHANGED <<script, job, log>>
  BY DEF Serve
<1>2. StreamInv /\ HistInv'
  BY DEF SendsInv
<1>3. GetLogInv'
  BY <1>1, GetLogKept DEF GetsInv
<1> SUFFICES ASSUME NEW d \in Client PROVE GetHas(d)'
  BY <1>3 DEF GetsInv, GetInv
<1>4. SteadyJob(d) /\ GetHas(d)
  BY <1>1 DEF SteadyJob, GetsInv, GetInv
<1>5. PICK code, val : Answer(m, code, val) /\ code \notin OwnCodes /\ (Refuse(m) => code # "OK")
  BY <1>1, ServerCodes
<1>6. net' = net \ {m} /\ Hears(m, code)
  BY <1>2, <1>5, AnswerIs
<1>7. CASE stream'[d] = stream[d]
  BY <1>2, <1>4, <1>6, <1>7, GetterWaits
<1>8. CASE /\ d = m.c /\ stream[d].k = m.k /\ stream[d].st = "open"
           /\ stream'[d].st = "answered"
  <2>1. stream'[d].code = code
    BY <1>5, <1>8 DEF Answer, StreamInv, StreamColumns, SendsInv
  <2>2. Describing(d)' = Describing(d) /\ CallSlot(d)' = CallSlot(d)
    BY <1>1, SteadyGet
  <2>3. ASSUME Describing(d), code = "OK" PROVE DescribeHeard(d)'
    <3>1. DescribeAsks(d, m) /\ Aims(CallSlot(d), job[d].handle, job[d].run)
      BY <1>4, <1>8, <2>3 DEF GetHas, DescribeAwaits
    <3>2. DescribeWorkflowExecution(m)
      <4>1. CASE Missing(m)
        <5>1. Answer(m, "Internal", NoValue)
          BY <4>1 DEF Missing
        <5>2. stream'[d].code = "Internal"
          BY <1>8, <5>1 DEF Answer, StreamInv, StreamColumns, SendsInv
        <5> QED
          BY <2>1, <2>3, <5>2
      <4>2. CASE ~Missing(m)
        BY <1>1, <1>5, <2>3, <3>1, <4>2 DEF DescribeAsks, Handle, ConflictsOut, StartReplayed,
           StartRefused, StartWorkflowExecution, SignalWorkflowExecution,
           RequestCancelWorkflowExecution, WakeWorkflowExecution, TerminateWorkflowExecution,
           CreateNamespace, ListNamespaces, GetWorkflowExecutionHistory, ListWorkflowExecutions
      <4> QED
        BY <4>1, <4>2
    <3>3. PICK slot, handle : slot = CallSlot(d) /\ handle = job[d].handle
      OBVIOUS
    <3>4. PICK v : Answer(m, "OK", v) /\ Described(slot, handle, v.run, v.status)
      BY <3>1, <3>2, <3>3, DescribeServes DEF DescribeAsks
    <3>5. PICK r, status : r = v.run /\ status = v.status
      OBVIOUS
    <3>6. Described(slot, handle, r, status)'
      BY <3>4, <3>5, DescribedOn
    <3>7. stream'[d].val = v
      BY <1>8, <3>4 DEF Answer, StreamInv, StreamColumns, SendsInv
    <3> QED
      BY <1>1, <2>2, <3>3, <3>5, <3>6, <3>7 DEF DescribeHeard
  <2>4. Told(d)'
    BY <1>5, <1>8, <2>1, <2>2, <2>3 DEF Told, DescribeHeard, OwnCodes
  <2> QED
    BY <1>2, <1>4, <1>8, <2>4, GetterWaits
<1> QED
  BY <1>6, <1>7, <1>8 DEF Hears

LEMMA OthersGet ==
    ASSUME HistInv', GetsInv, RowsOn(execs, execs'), Longer(execs, execs'), net' \subseteq net,
           UNCHANGED <<script, log, job>>,
           \A d \in Client :
              \/ stream'[d] = stream[d]
              \/ /\ stream[d].st = "open"
                 /\ stream'[d].st = "answered" /\ stream'[d].code = "Unavailable"
    PROVE  GetsInv'
<1>1. GetLogInv'
  BY GetLogKept DEF GetsInv
<1>2. ASSUME NEW d \in Client PROVE GetHas(d)'
  <2>1. SteadyJob(d) /\ GetHas(d)
    BY DEF SteadyJob, GetsInv, GetInv
  <2>2. \/ stream'[d] = stream[d] /\ \A m \in net' : m.c = d => m \in net
        \/ stream[d].st = "open" /\ Told(d)'
    BY DEF Told, DescribeHeard, OwnCodes
  <2> QED
    BY <2>1, <2>2, GetterWaits
<1> QED
  BY <1>1, <1>2 DEF GetsInv, GetInv

(* A call goes on, or returns.                                             *)
MayGet(c, j) ==
    /\ Doing(c).do = "get" /\ j.stage = "describe" => Aims(CallSlot(c), j.handle, j.run)
    /\ Doing(c).do = "get" /\ j.stage = "fetch" =>
          /\ Settled(CallSlot(c), j.handle, j.settled, j.status)
          /\ j.token # << >> => ResultAmong(j.was, HistoryOf(c, j.settled))

MaySettle(c, code, j) ==
    Doing(c).do = "get" =>
        /\ code # "NoResult"
        /\ code \in {"OK", "Unsuccessful"} =>
              Ended(CallSlot(c), j.handle, j.settled, j.status)

LEMMA OtherGetters ==
    ASSUME HistInv', SendsInv, GetsInv, RowsOn(execs, execs'), Longer(execs, execs'),
           NEW c \in Client, Closed(c), Rest,
           \A d \in Client \ {c} : job'[d] = job[d],
           Describing(c)' => Aims(CallSlot(c), job[c].handle, job[c].run)',
           Fetching(c)' =>
              /\ Settled(CallSlot(c), job[c].handle, job[c].settled, job[c].status)'
              /\ Promised(c)'
    PROVE  GetInv'
<1>1. script' = script /\ net' = net
  BY DEF Rest
<1>2. GetHas(c)'
  <2>1. stream'[c].st = "closed"
    BY ClosedIs
  <2> QED
    BY <2>1 DEF GetHas, DescribeAwaits, DescribeHeard
<1>3. ASSUME NEW d \in Client, d # c PROVE GetHas(d)'
  <2>1. SteadyJob(d) /\ stream'[d] = stream[d] /\ \A m \in net' : m.c = d => m \in net
    BY <1>1, <1>3, ClosedIs DEF SteadyJob
  <2>2. GetHas(d)
    BY DEF GetsInv, GetInv
  <2> QED
    BY <2>1, <2>2, GetterWaits
<1> QED
  BY <1>2, <1>3 DEF GetInv

LEMMA TurnGets ==
    ASSUME HistInv', SendsInv, GetsInv, RowsOn(execs, execs'), Longer(execs, execs'),
           NEW c \in Client, NEW j, j.at = job[c].at, MayGet(c, j), Continue(c, j)
    PROVE  GetsInv'
<1>1. /\ Closed(c) /\ Rest /\ log' = log /\ script' = script /\ job'[c] = j /\ execs' = execs
      /\ \A d \in Client \ {c} : job'[d] = job[d]
  BY DEF Continue, SendsInv, JobInv, Rest
<1>2. /\ Doing(c)' = Doing(c) /\ CallSlot(c)' = CallSlot(c)
      /\ Describing(c)' => Doing(c).do = "get" /\ j.stage = "describe"
      /\ Fetching(c)' => Doing(c).do = "get" /\ j.stage = "fetch"
      /\ stream'[c].st = "closed"
  BY <1>1, SteadyGet, ClosedIs DEF Describing, Fetching
<1>3. Describing(c)' => Aims(CallSlot(c), job[c].handle, job[c].run)'
  BY <1>1, <1>2 DEF MayGet, Aims, Reaches, InSlot
<1>4. Fetching(c)' => Settled(CallSlot(c), job[c].handle, job[c].settled, job[c].status)'
  BY <1>1, <1>2 DEF MayGet, Settled, Reaches, InSlot, HasResult
<1>5. Fetching(c)' => Promised(c)'
  <2>1. Fetching(c)' => Read(c)' = HistoryOf(c, j.settled)
    BY <1>1, <1>2 DEF Read, HistoryOf, HistoryRun, Fetching
  <2> QED
    BY <1>1, <1>2, <2>1 DEF MayGet, Promised, ResultAmong
<1>6. GetInv'
  BY <1>1, <1>3, <1>4, <1>5, OtherGetters
<1>7. GetLogInv'
  BY <1>1, GetLogKept DEF GetsInv
<1> QED
  BY <1>6, <1>7 DEF GetsInv

LEMMA FinishGets ==
    ASSUME HistInv', SendsInv, GetsInv, RowsOn(execs, execs'), Longer(execs, execs'),
           NEW c \in Client, Busy(c), NEW code, NEW j, NEW handle,
           MaySettle(c, code, j), Finish(c, code, j, handle)
    PROVE  GetsInv'
<1>1. PICK n : job' = [job EXCEPT ![c] = NewJob(n, handle)] /\ Closed(c) /\ Rest
  BY DEF Finish
<1>2. /\ job'[c] = NewJob(n, handle) /\ \A d \in Client \ {c} : job'[d] = job[d]
      /\ script' = script /\ execs' = execs
  BY <1>1 DEF SendsInv, JobInv, Rest
<1>3. job'[c].stage = "describe" /\ job'[c].run = job'[c].handle
  <2>1. PICK row : row = NewJob(n, handle)
    OBVIOUS
  <2>2. row.stage = "describe" /\ row.run = row.handle
    BY <2>1 DEF NewJob
  <2> QED
    BY <1>2, <2>1, <2>2
<1>4. ~Fetching(c)' /\ Aims(CallSlot(c), job[c].handle, job[c].run)'
  BY <1>3 DEF Fetching, Aims
<1>5. GetInv'
  BY <1>1, <1>2, <1>4, OtherGetters
<1>6. PICK e : /\ e.code = code /\ e.handle = j.handle /\ e.run = j.settled
               /\ e.status = j.status /\ log' = [log EXCEPT ![c] = Append(log[c], e)]
  BY DEF Finish
<1>7. /\ \A d \in Client \ {c} : log'[d] = log[d]
      /\ \A i \in DOMAIN log'[c] : \/ i \in DOMAIN log[c] /\ log'[c][i] = log[c][i]
                                   \/ i = job[c].at /\ log'[c][i] = e
  BY <1>6, LogAdded
<1>8. GetLogInv'
  <2> SUFFICES ASSUME NEW d \in Client, NEW i \in DOMAIN log'[d], script[d][i].do = "get"
               PROVE  /\ log'[d][i].code # "NoResult"
                      /\ log'[d][i].code \in {"OK", "Unsuccessful"} =>
                            \E slot : Ended(slot, log'[d][i].handle, log'[d][i].run,
                                            log'[d][i].status)
    BY <1>2 DEF GetLogInv, Ended, Reaches, InSlot
  <2>1. CASE i \in DOMAIN log[d] /\ log'[d][i] = log[d][i]
    BY <2>1 DEF GetsInv, GetLogInv
  <2>2. CASE d = c /\ i = job[c].at /\ log'[c][i] = e
    <3>1. Doing(c).do = "get"
      BY <2>2 DEF Doing
    <3> QED
      BY <1>6, <2>2, <3>1 DEF MaySettle
  <2> QED
    BY <1>7, <2>1, <2>2
<1> QED
  BY <1>5, <1>8 DEF GetsInv

(* The result is on the pages that were read.                              *)
LEMMA ResultIsRead ==
    ASSUME NEW was, NEW got, NEW h, Begins(got, h), was \subseteq 1 .. Len(got),
           ResultAmong(was, h)
    PROVE  HasResult(got)
<1>1. PICK i \in was : i \in DOMAIN h /\ h[i].type = "Completed"
  BY DEF ResultAmong
<1>2. DOMAIN got = 1 .. Len(got) /\ i \in 1 .. Len(got) /\ got[i] = h[i]
  BY <1>1, TableIs DEF Begins
<1> QED
  BY <1>1, <1>2 DEF HasResult

LEMMA ReturnGets ==
    ASSUME SendsInv, SendsInv', ReadsInv, GetsInv, RowsOn(execs, execs'), Longer(execs, execs'),
           NEW c \in Client, Return(c)
    PROVE  GetsInv'
<1>1. Busy(c) /\ stream[c].st = "answered" /\ JobColumns \subseteq DOMAIN job[c] /\ HistInv'
  BY DEF Return, CallReturns, GetDescribed, HistoryPaged, ListPaged, CallFails, CallAgain,
     Back, SendsInv, JobInv
<1>2. ASSUME NEW j, j.at = job[c].at, MayGet(c, j), Continue(c, j) PROVE GetsInv'
  BY <1>1, <1>2, TurnGets
<1>3. ASSUME NEW code, NEW j, NEW handle, MaySettle(c, code, j), Finish(c, code, j, handle)
      PROVE  GetsInv'
  BY <1>1, <1>3, FinishGets
<1>4. GetHas(c) /\ ReadHas(c) /\ stream[c].code \notin OwnCodes
  BY <1>1 DEF GetsInv, GetInv, ReadsInv, ReadInv, GetHas
<1>5. ASSUME Doing(c).do # "get" PROVE \A code, j : MayGet(c, j) /\ MaySettle(c, code, j)
  BY <1>5 DEF MayGet, MaySettle
<1>6. CASE CallReturns(c)
  <2>1. Doing(c).do # "get"
    BY <1>6 DEF CallReturns, Back
  <2>2. PICK j, handle : Finish(c, stream[c].code, j, handle)
    BY <1>6 DEF CallReturns, Answered
  <2> QED
    BY <1>3, <1>5, <2>1, <2>2
<1>7. CASE GetDescribed(c)
  <2>1. Describing(c) /\ stream[c].code = "OK"
    BY <1>1, <1>7 DEF GetDescribed, Back, Describing, Answered
  <2>2. PICK slot, handle, r, status :
           /\ slot = CallSlot(c) /\ handle = job[c].handle
           /\ r = stream[c].val.run /\ status = stream[c].val.status
    OBVIOUS
  <2>3. Described(slot, handle, r, status) /\ job[c].token = << >>
    BY <1>1, <1>4, <2>1, <2>2 DEF GetHas, DescribeHeard, ReadHas, Fresh
  <2>4. PICK j : j = [job[c] EXCEPT !.settled = r, !.status = status]
    OBVIOUS
  <2>5. PICK t : t = [j EXCEPT !.stage = "fetch"]
    OBVIOUS
  <2>6. \/ status = "COMPLETED" /\ Continue(c, t)
        \/ status \in Unsuccessful /\ Finish(c, "Unsuccessful", j, r)
        \/ Continue(c, [job[c] EXCEPT !.run = NoRun])
        \/ Continue(c, [job[c] EXCEPT !.run = r])
    BY <1>7, <2>2, <2>4, <2>5 DEF GetDescribed
  <2>7. /\ JobColumns \subseteq DOMAIN j /\ j.at = job[c].at /\ j.handle = handle
        /\ j.token = job[c].token /\ j.settled = r /\ j.status = status
    BY <1>1, <2>2, <2>4 DEF JobColumns
  <2>8. /\ t.at = job[c].at /\ t.handle = handle /\ t.token = << >>
        /\ t.settled = r /\ t.status = status /\ t.stage = "fetch"
    BY <2>3, <2>5, <2>7 DEF JobColumns
  <2>9. CASE status = "COMPLETED" /\ Continue(c, t)
    <3>1. Settled(slot, handle, r, status)
      BY <2>3, <2>9 DEF Described, Settled
    <3>2. MayGet(c, t)
      BY <2>2, <2>8, <3>1 DEF MayGet
    <3> QED
      BY <1>2, <2>8, <2>9, <3>2
  <2>10. CASE status \in Unsuccessful /\ Finish(c, "Unsuccessful", j, r)
    <3>1. Ended(slot, handle, r, status)
      BY <2>3, <2>10 DEF Described, Ended, Unsuccessful
    <3>2. MaySettle(c, "Unsuccessful", j)
      BY <2>2, <2>7, <3>1 DEF MaySettle
    <3> QED
      BY <1>3, <2>10, <3>2
  <2>11. ASSUME NEW v \in {NoRun, r}, Continue(c, [job[c] EXCEPT !.run = v]) PROVE GetsInv'
    <3>1. PICK u : u = [job[c] EXCEPT !.run = v]
      OBVIOUS
    <3>2. u.at = job[c].at /\ u.handle = handle /\ u.run = v /\ u.stage = "describe"
      BY <1>1, <2>1, <2>2, <3>1 DEF JobColumns, Describing
    <3>3. Aims(slot, handle, v)
      BY <2>3 DEF Aims, Described, Reaches
    <3>4. MayGet(c, u)
      BY <2>2, <3>2, <3>3 DEF MayGet
    <3> QED
      BY <1>2, <2>11, <3>1, <3>2, <3>4
  <2> QED
    BY <2>6, <2>9, <2>10, <2>11
<1>8. CASE HistoryPaged(c)
  <2>1. PICK events, token, j :
           /\ events = stream[c].val.events /\ token = stream[c].val.token
           /\ j = [job[c] EXCEPT !.got = job[c].got \o events, !.token = token]
    OBVIOUS
  <2>2. \/ token # << >> /\ Continue(c, j)
        \/ /\ token = << >>
           /\ \E handle : Finish(c, IF Doing(c).do = "get" /\ ~HasResult(j.got)
                                    THEN "NoResult" ELSE "OK", j, handle)
    BY <1>8, <2>1 DEF HistoryPaged, LastPage
  <2>3. /\ j.at = job[c].at /\ j.was = job[c].was /\ j.got = job[c].got \o events
        /\ j.token = token /\ j.stage = job[c].stage /\ j.settled = job[c].settled
        /\ j.handle = job[c].handle /\ j.status = job[c].status
    BY <1>1, <2>1 DEF JobColumns
  <2>4. CASE Doing(c).do # "get"
    BY <1>2, <1>3, <1>5, <2>2, <2>3, <2>4
  <2>5. CASE Doing(c).do = "get"
    <3>1. Fetching(c) /\ Reading(c) /\ stream[c].code = "OK"
      BY <1>1, <1>8, <2>5 DEF HistoryPaged, Answered, Fetching, Reading
    <3>2. PICK slot, handle, r, status, was :
             /\ slot = CallSlot(c) /\ handle = job[c].handle /\ r = job[c].settled
             /\ status = job[c].status /\ was = job[c].was
      OBVIOUS
    <3>3. Settled(slot, handle, r, status) /\ ResultAmong(was, Read(c))
      BY <1>1, <1>4, <3>1, <3>2 DEF GetHas, Promised
    <3>4. IsPage(c, events, token)
      BY <1>1, <1>4, <2>1, <3>1 DEF ReadHas, Heard
    <3>5. CASE token # << >>
      <4>1. HistoryOf(c, r) = Read(c)
        BY <3>1, <3>2 DEF Read, HistoryRun, Fetching
      <4>2. MayGet(c, j)
        BY <2>3, <3>1, <3>2, <3>3, <4>1 DEF MayGet, Fetching
      <4> QED
        BY <1>2, <2>2, <2>3, <3>5, <4>2
    <3>6. CASE token = << >>
      <4>1. Begins(j.got, Read(c)) /\ was \subseteq 1 .. Len(j.got)
        BY <2>3, <3>2, <3>4, <3>6 DEF IsPage
      <4>2. HasResult(j.got)
        BY <3>3, <4>1, ResultIsRead
      <4>3. Ended(slot, handle, r, status)
        BY <3>3 DEF Settled, Ended
      <4>4. MaySettle(c, "OK", j)
        BY <2>3, <3>2, <4>3 DEF MaySettle
      <4> QED
        BY <1>3, <2>2, <3>6, <4>2, <4>4
    <3> QED
      BY <3>5, <3>6
  <2> QED
    BY <2>4, <2>5
<1>9. CASE ListPaged(c)
  <2>1. Doing(c).do # "get"
    BY <1>9 DEF ListPaged, Back
  <2>2. PICK j : j = [job[c] EXCEPT !.got = job[c].got \o stream[c].val.runs,
                                    !.token = stream[c].val.token]
    OBVIOUS
  <2>3. Continue(c, j) \/ \E code, handle : Finish(c, code, j, handle)
    BY <1>9, <2>2 DEF ListPaged
  <2>4. j.at = job[c].at
    BY <1>1, <2>2 DEF JobColumns
  <2> QED
    BY <1>2, <1>3, <1>5, <2>1, <2>3, <2>4
<1>10. CASE CallFails(c)
  <2>1. Finish(c, stream[c].code, job[c], job[c].handle) /\ stream[c].code # "OK"
    BY <1>10 DEF CallFails, Answered
  <2>2. MaySettle(c, stream[c].code, job[c])
    BY <1>4, <2>1 DEF MaySettle, OwnCodes
  <2> QED
    BY <1>3, <2>1, <2>2
<1>11. CASE CallAgain(c)
  <2>1. PICK sends, anew :
           /\ anew = [NewJob(job[c].at, job[c].handle) EXCEPT !.sends = sends]
           /\ \/ Continue(c, anew)
              \/ Doing(c).do = "list" /\ Continue(c, [job[c] EXCEPT !.sends = sends])
              \/ Finish(c, "Unavailable", job[c], job[c].handle)
    BY <1>11 DEF CallAgain
  <2>2. CASE Continue(c, anew)
    <3>1. /\ anew.at = job[c].at /\ anew.run = anew.handle /\ anew.stage = "describe"
      BY <2>1 DEF NewJob
    <3>2. MayGet(c, anew)
      BY <3>1 DEF MayGet, Aims
    <3> QED
      BY <1>2, <2>2, <3>1, <3>2
  <2>3. CASE Doing(c).do = "list" /\ Continue(c, [job[c] EXCEPT !.sends = sends])
    <3>1. PICK j : j = [job[c] EXCEPT !.sends = sends]
      OBVIOUS
    <3>2. j.at = job[c].at
      BY <1>1, <3>1 DEF JobColumns
    <3> QED
      BY <1>2, <1>5, <2>3, <3>1, <3>2
  <2>4. CASE Finish(c, "Unavailable", job[c], job[c].handle)
    <3>1. MaySettle(c, "Unavailable", job[c])
      BY DEF MaySettle
    <3> QED
      BY <1>3, <2>4, <3>1
  <2> QED
    BY <2>1, <2>2, <2>3, <2>4
<1> QED
  BY <1>6, <1>7, <1>8, <1>9, <1>10, <1>11 DEF Return

LEMMA GetsInvStep ==
    RunsInv /\ SendsInv /\ NumbersInv /\ ReadsInv /\ ResultsInv /\ GetsInv /\ [Next]_vars
       => ResultsInv' /\ GetsInv'
<1> SUFFICES ASSUME RunsInv, SendsInv, NumbersInv, ReadsInv, ResultsInv, GetsInv, [Next]_vars
             PROVE  ResultsInv' /\ GetsInv'
  OBVIOUS
<1>1. SendsInv' /\ HistInv' /\ RowsOn(execs, execs') /\ Longer(execs, execs')
  BY SendsInvStep, NextOn DEF SendsInv
<1>2. ResultsInv'
  BY <1>1, ResultsOn
<1>3. CASE Done \/ UNCHANGED vars
  <2>1. UNCHANGED <<net, stream, script, log, job>>
    BY <1>3 DEF Done, vars
  <2> QED
    BY <1>1, <1>2, <2>1, OthersGet
<1>4. CASE (\E c \in Client : OutcomeUnknown(c)) \/ (\E m \in net : RequestLost(m))
  <2>1. net' \subseteq net /\ UNCHANGED <<script, log, job>>
    BY <1>4 DEF OutcomeUnknown, RequestLost
  <2>2. \A d \in Client : \/ stream'[d] = stream[d]
                          \/ stream'[d].st = "answered" /\ stream'[d].code = "Unavailable"
    BY <1>4, NetworkFaults
  <2>3. \A d \in Client : stream'[d] = stream[d] \/ stream[d].st = "open"
    BY <1>4 DEF OutcomeUnknown, RequestLost, SendsInv, StreamInv
  <2> QED
    BY <1>1, <1>2, <2>1, <2>2, <2>3, OthersGet
<1>5. CASE \E r \in DOMAIN execs : Worker(r)
  <2>1. UNCHANGED <<net, stream, script, log, job>>
    BY <1>5 DEF Worker, Work, WorkflowTaskProgress, WorkflowCompletes, WorkflowFails, CloseBy,
       ContinueWorkflowAsNew
  <2> QED
    BY <1>1, <1>2, <2>1, OthersGet
<1> QED
  BY <1>1, <1>2, <1>3, <1>4, <1>5, InvokeGets, ReturnGets, ServeGets DEF Next

LEMMA GetsInvInit == Init => ResultsInv /\ GetsInv
<1> SUFFICES ASSUME Init PROVE ResultsInv /\ GetsInv
  OBVIOUS
<1>1. /\ execs = << >>
      /\ \A c \in Client : /\ stream[c].st = "closed" /\ log[c] = << >>
                           /\ job[c] = NewJob(1, NoRun)
  BY DEF Init
<1>2. PICK row : row = NewJob(1, NoRun)
  OBVIOUS
<1>3. row.stage = "describe" /\ row.run = row.handle
  BY <1>2 DEF NewJob
<1>4. ASSUME NEW c \in Client PROVE GetHas(c)
  BY <1>1, <1>2, <1>3 DEF GetHas, Describing, Fetching, Aims, DescribeAwaits, DescribeHeard
<1>5. GetLogInv /\ ResultsInv
  BY <1>1 DEF GetLogInv, ResultsInv
<1> QED
  BY <1>4, <1>5 DEF GetsInv, GetInv

-----------------------------------------------------------------------------
(* Chains of continuations.                                                *)

(* The run that run x continues, the way Ancestor goes up from x.          *)
Parent(x) == IF x = NoRun THEN NoRun ELSE execs[x].from

Climbs(f, r, k) == f = [n \in 0 .. k |-> IF n = 0 THEN r ELSE Parent(f[n - 1])]

LEMMA ClimbExists ==
    ASSUME NEW r, NEW N \in Nat
    PROVE  \E f : Climbs(f, r, N)
<1> DEFINE Has(k) == \E f : Climbs(f, r, k)
           Bad == {k \in Nat : ~Has(k)}
<1>1. Has(0)
  <2>1. PICK f : f = [n \in 0 .. 0 |-> r]
    OBVIOUS
  <2>2. f = [n \in 0 .. 0 |-> IF n = 0 THEN r ELSE Parent(f[n - 1])]
    BY <2>1
  <2> QED
    BY <2>2 DEF Climbs
<1>2. ASSUME NEW k \in Nat, Has(k) PROVE Has(k + 1)
  <2>1. PICK f : f = [n \in 0 .. k |-> IF n = 0 THEN r ELSE Parent(f[n - 1])]
    BY <1>2 DEF Climbs
  <2>2. PICK g : g = [n \in 0 .. k + 1 |-> IF n <= k THEN f[n] ELSE Parent(f[k])]
    OBVIOUS
  <2>3. \A n \in 0 .. k : g[n] = f[n]
    BY <2>2
  <2>4. \A n \in 0 .. k + 1 : g[n] = IF n = 0 THEN r ELSE Parent(g[n - 1])
    <3> SUFFICES ASSUME NEW n \in 0 .. k + 1
                 PROVE  g[n] = IF n = 0 THEN r ELSE Parent(g[n - 1])
      OBVIOUS
    <3>1. CASE n = 0
      BY <2>1, <2>3, <3>1
    <3>2. CASE n \in 1 .. k
      <4>1. g[n] = f[n] /\ g[n - 1] = f[n - 1] /\ f[n] = Parent(f[n - 1])
        BY <2>1, <2>3, <3>2
      <4> QED
        BY <3>2, <4>1
    <3>3. CASE n = k + 1
      <4>1. g[n] = Parent(f[k]) /\ g[n - 1] = f[k] /\ n # 0
        BY <2>2, <2>3, <3>3
      <4> QED
        BY <4>1
    <3> QED
      BY <3>1, <3>2, <3>3
  <2>5. g = [n \in 0 .. k + 1 |-> IF n = 0 THEN r ELSE Parent(g[n - 1])]
    BY <2>2, <2>4
  <2> QED
    BY <2>5 DEF Climbs
<1> HIDE DEF Has
<1>3. Bad = {}
  <2> SUFFICES ASSUME Bad # {} PROVE FALSE
    OBVIOUS
  <2>1. PICK k \in Bad : \A x \in Bad : k <= x
    BY FirstOf
  <2>2. k \in Nat /\ ~Has(k)
    BY <2>1
  <2>3. k - 1 \in Nat /\ k - 1 \notin Bad
    BY <1>1, <2>1, <2>2
  <2>4. Has(k - 1)
    BY <2>3
  <2>5. Has(k - 1 + 1)
    BY <1>2, <2>3, <2>4
  <2> QED
    BY <2>2, <2>5
<1>4. Has(N)
  BY <1>3
<1> QED
  BY <1>4 DEF Has

LEMMA AncestorsClimb ==
    ASSUME NEW r, Len(execs) \in Nat
    PROVE  \E up : Climbs(up, r, Len(execs)) /\ Ancestor(r) = {up[n] : n \in 0 .. Len(execs)}
<1> DEFINE F == CHOOSE up : up = [n \in 0 .. Len(execs) |->
                   IF n = 0 THEN r
                   ELSE IF up[n - 1] = NoRun THEN NoRun ELSE execs[up[n - 1]].from]
<1>1. \E up : up = [n \in 0 .. Len(execs) |->
                   IF n = 0 THEN r
                   ELSE IF up[n - 1] = NoRun THEN NoRun ELSE execs[up[n - 1]].from]
  <2>1. PICK N \in Nat : N = Len(execs)
    OBVIOUS
  <2>2. PICK f : Climbs(f, r, N)
    BY ClimbExists
  <2>3. f = [n \in 0 .. Len(execs) |->
               IF n = 0 THEN r
               ELSE IF f[n - 1] = NoRun THEN NoRun ELSE execs[f[n - 1]].from]
    BY <2>1, <2>2 DEF Climbs, Parent
  <2> QED
    BY <2>3
<1>2. F = [n \in 0 .. Len(execs) |->
                   IF n = 0 THEN r
                   ELSE IF F[n - 1] = NoRun THEN NoRun ELSE execs[F[n - 1]].from]
  BY <1>1, Zenon
<1>3. Ancestor(r) = {F[n] : n \in 0 .. Len(execs)}
  BY DEF Ancestor
<1> HIDE DEF F
<1>4. Climbs(F, r, Len(execs))
  BY <1>2 DEF Climbs, Parent
<1> QED
  BY <1>3, <1>4

(* From a run of the workflow up to the one that was asked for: the chain  *)
(* leads there, or starts with a run that took the workflow over.          *)
LEMMA ChainLeadsBack ==
    ASSUME RunsInv, NEW slot, NEW h, NEW r, Reaches(slot, h, r)
    PROVE  \/ h \in Ancestor(r)
           \/ \E x \in (h + 1) .. r : execs[x].slot = slot /\ TookOver(x)
<1>1. DOMAIN execs = 1 .. Len(execs) /\ Len(execs) \in Nat
  BY TableIs DEF RunsInv
<1>2. /\ r \in DOMAIN execs /\ execs[r].slot = slot /\ r \in Nat /\ h \in 0 .. r /\ h \in Nat
      /\ h = 0 \/ (h \in DOMAIN execs /\ execs[h].slot = slot)
  BY <1>1 DEF Reaches, InSlot, NoRun
<1>3. PICK up : Climbs(up, r, Len(execs)) /\ Ancestor(r) = {up[n] : n \in 0 .. Len(execs)}
  BY <1>1, AncestorsClimb
<1>4. up[0] = r /\ \A n \in 1 .. Len(execs) : up[n] = Parent(up[n - 1])
  BY <1>1, <1>3 DEF Climbs
<1> DEFINE On(y) == /\ execs[y].slot = slot
                    /\ \E n \in 0 .. Len(execs) : up[n] = y /\ y + n <= r
           G == {y \in (h + 1) .. r : On(y)}
<1> SUFFICES ASSUME h \notin Ancestor(r), \A x \in (h + 1) .. r : execs[x].slot = slot => ~TookOver(x)
             PROVE  FALSE
  OBVIOUS
<1>5. r \in G
  <2>1. h # r
    BY <1>1, <1>3, <1>4
  <2>2. 0 \in 0 .. Len(execs) /\ r + 0 <= r
    BY <1>1, <1>2
  <2>3. On(r)
    BY <1>2, <1>4, <2>2
  <2> QED
    BY <1>2, <2>1, <2>3
<1>6. G \subseteq Nat
  BY <1>2
<1> HIDE DEF G
<1>7. PICK y \in G : \A x \in G : y <= x
  BY <1>5, <1>6, FirstOf
<1>8. y \in (h + 1) .. r /\ y \in Nat /\ execs[y].slot = slot
  BY <1>2, <1>7 DEF G
<1>9. PICK n \in 0 .. Len(execs) : up[n] = y /\ y + n <= r
  BY <1>7 DEF G
<1>10. PICK p \in 1 .. (y - 1) : /\ execs[p].slot = execs[y].slot /\ execs[y].from = p
                                 /\ \A z \in (p + 1) .. (y - 1) : execs[z].slot # execs[y].slot
  BY <1>8 DEF TookOver
<1>11. n + 1 \in 1 .. Len(execs) /\ p + (n + 1) <= r
  BY <1>1, <1>2, <1>8, <1>9, <1>10
<1>12. up[n + 1] = p
  <2>1. up[n + 1] = Parent(up[n])
    BY <1>4, <1>9, <1>11
  <2> QED
    BY <1>8, <1>9, <1>10, <2>1 DEF Parent, NoRun
<1>13. p # h
  BY <1>3, <1>11, <1>12
<1>14. p >= h
  <2>1. CASE h = 0
    BY <1>10, <2>1
  <2>2. CASE h # 0
    <3>1. execs[h].slot = execs[y].slot
      BY <1>2, <1>8, <2>2
    <3>2. ~(h \in (p + 1) .. (y - 1))
      BY <1>10, <3>1
    <3> QED
      BY <1>2, <1>8, <1>10, <3>2
  <2> QED
    BY <2>1, <2>2
<1>15. p \in (h + 1) .. r /\ p < y
  BY <1>2, <1>8, <1>10, <1>13, <1>14
<1>16. p \in G
  BY <1>8, <1>10, <1>11, <1>12, <1>15 DEF G
<1> QED
  BY <1>7, <1>8, <1>15, <1>16

LEMMA GetsHaveSettled == RunsInv /\ GetsInv => GetSettles
<1> SUFFICES ASSUME RunsInv, GetsInv, NEW c \in Client, NEW i \in Logged(c, "get"),
                    NEW e, e = log[c][i]
             PROVE  /\ e.code # "NoResult"
                    /\ e.code \in {"OK", "Unsuccessful"} =>
                         /\ execs[e.run].status # "RUNNING" /\ e.status # "CONTINUED_AS_NEW"
                         /\ \/ e.handle \in Ancestor(e.run)
                            \/ \E x \in (e.handle + 1) .. e.run :
                                 execs[x].slot = execs[e.run].slot /\ TookOver(x)
  BY DEF GetSettles
<1>1. /\ e.code # "NoResult"
      /\ e.code \in {"OK", "Unsuccessful"} => \E slot : Ended(slot, e.handle, e.run, e.status)
  BY DEF Logged, GetsInv, GetLogInv
<1> SUFFICES ASSUME NEW slot, Ended(slot, e.handle, e.run, e.status)
             PROVE  /\ execs[e.run].status # "RUNNING" /\ e.status # "CONTINUED_AS_NEW"
                    /\ \/ e.handle \in Ancestor(e.run)
                       \/ \E x \in (e.handle + 1) .. e.run :
                            execs[x].slot = execs[e.run].slot /\ TookOver(x)
  BY <1>1
<1>2. PICK h, r : h = e.handle /\ r = e.run
  OBVIOUS
<1>3. Reaches(slot, h, r) /\ execs[r].slot = slot
  BY <1>2 DEF Ended, Reaches, InSlot
<1>4. h \in Ancestor(r) \/ \E x \in (h + 1) .. r : execs[x].slot = slot /\ TookOver(x)
  BY <1>3, ChainLeadsBack
<1> QED
  BY <1>2, <1>3, <1>4 DEF Ended

(* A Get ends on a run that had ended, and not by continuing, in the chain *)
(* of the run it was asked for or after a run that took the workflow over; *)
(* a completed run's result is found on the pages (Get and fetchResult,    *)
(* for every number of runs, continuations and pages).                     *)
THEOREM GetsSettleOnTheirChain == Spec => []GetSettles
<1> DEFINE Inv == RunsInv /\ SendsInv /\ NumbersInv /\ ReadsInv /\ ResultsInv /\ GetsInv
<1>1. Init => Inv
  BY RunsInvInit, SendsInvInit, NumbersInvInit, ReadsInvInit, GetsInvInit
<1>2. Inv /\ [Next]_vars => Inv'
  BY RunsInvStep, SendsInvStep, NumbersInvStep, ReadsInvStep, GetsInvStep
<1>3. Inv => GetSettles
  BY GetsHaveSettled
<1> QED
  BY <1>1, <1>2, <1>3, PTL DEF Spec
=============================================================================
