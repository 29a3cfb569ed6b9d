-------------------------- MODULE QueryTasksProofs --------------------------
(***************************************************************************)
(* Proofs about QueryTasks, for any set of queries and any bounds.         *)
(***************************************************************************)
EXTENDS QueryTasks, TLAPS

(* The table: task_ids are unique, a query has one row at most, and a      *)
(* query that has not been issued has left no trace.                       *)
TableInv ==
    /\ \A row \in rows : row.id < nextId
    /\ \A tok \in tokens : tok.id < nextId
    /\ \A a, b \in rows : (a.id = b.id \/ a.query = b.query) => a = b
    /\ \A q \in Query : caller[q].at = "idle" =>
          /\ \A row \in rows : row.query # q
          /\ \A a \in accepted : a.query # q

(* Tokens: a token is of its row's query and of no later lease; the lease  *)
(* under which a row was answered has no token left.                       *)
TokenInv ==
    \A tok \in tokens, row \in rows : row.id = tok.id =>
        /\ tok.query = row.query
        /\ tok.lease <= row.lease
        /\ row.status \in Answers => tok.lease # row.lease

(* Answers: a row says what was accepted for its query, and nothing was    *)
(* accepted for a query whose row has no answer.                           *)
AnswerInv ==
    /\ \A a \in accepted, row \in rows : a.query = row.query =>
          /\ row.status = a.told /\ row.lease = a.lease
    /\ \A row \in rows : row.status \in Answers =>
          [query |-> row.query, lease |-> row.lease, told |-> row.status]
             \in accepted

QueryInv == TypeOK /\ TableInv /\ TokenInv /\ AnswerInv /\ OneAnswer

-----------------------------------------------------------------------------
(* Initially there is no row, token or answer.                             *)
LEMMA QueryInvInit == Init => QueryInv
<1> SUFFICES ASSUME Init PROVE QueryInv
  OBVIOUS
<1> USE DEF Init
<1>1. TypeOK
  BY QueryAssumption DEF TypeOK, CallerState, At
<1>2. TableInv /\ TokenInv /\ AnswerInv
  BY DEF TableInv, TokenInv, AnswerInv, At
<1>3. OneAnswer
  BY DEF OneAnswer, At
<1> QED
  BY <1>1, <1>2, <1>3 DEF QueryInv

(* A row after its status and lease have been set is a row.                *)
LEMMA RowTyped ==
    ASSUME NEW row \in Row
    PROVE  /\ row.id \in Nat /\ row.query \in Query /\ row.lease \in Nat
           /\ row.status \in RowStatus
           /\ \A s \in RowStatus :
                 /\ [row EXCEPT !.status = s] \in Row
                 /\ [row EXCEPT !.status = s].id = row.id
                 /\ [row EXCEPT !.status = s].query = row.query
                 /\ [row EXCEPT !.status = s].lease = row.lease
                 /\ [row EXCEPT !.status = s].status = s
BY DEF Row

(* The same of the dequeue, which also counts the lease.                   *)
LEMMA LeasedRowTyped ==
    ASSUME NEW row \in Row
    PROVE  /\ Leased(row) \in Row
           /\ Leased(row).id = row.id /\ Leased(row).query = row.query
           /\ Leased(row).status = "STARTED" /\ Leased(row).lease = row.lease + 1
<1> DEFINE n == row.lease + 1
<1>1. n \in Nat
  BY DEF Row
<1>2. Leased(row) = [row EXCEPT !.status = "STARTED", !.lease = n]
  BY DEF Leased
<1> HIDE DEF n
<1>3. /\ Leased(row) \in Row
      /\ Leased(row).id = row.id /\ Leased(row).query = row.query
      /\ Leased(row).status = "STARTED" /\ Leased(row).lease = n
  BY <1>1, <1>2 DEF Row, RowStatus
<1> QED
  BY <1>3 DEF n

-----------------------------------------------------------------------------
(* Steps of a handler that only move the handler on.                       *)
LEMMA MoveKeeps ==
    ASSUME QueryInv, NEW q \in Query, NEW s \in CallerState,
           Goto(q, s), caller[q].at # "idle" \/ s.at = "returned", s.at # "idle",
           UNCHANGED <<rows, nextId, ctx, tokens, accepted, spent>>,
           (s.at \in {"delete", "returned"} /\ s.told \in Answers) =>
              [query |-> q, lease |-> s.lease, told |-> s.told] \in accepted
    PROVE  QueryInv'
<1>1. caller' = [caller EXCEPT ![q] = s] /\ caller \in [Query -> CallerState]
  BY DEF Goto, QueryInv, TypeOK
<1>2. TypeOK'
  BY <1>1 DEF QueryInv, TypeOK
<1>3. TableInv'
  BY <1>1 DEF QueryInv, TableInv
<1>4. TokenInv' /\ AnswerInv'
  BY DEF QueryInv, TokenInv, AnswerInv
<1>5. OneAnswer'
  BY <1>1 DEF QueryInv, OneAnswer
<1> QED
  BY <1>2, <1>3, <1>4, <1>5 DEF QueryInv

(* Deleting the row of a query that has been issued.                       *)
LEMMA DeleteKeeps ==
    ASSUME QueryInv, NEW q \in Query, NEW s \in CallerState,
           Goto(q, s), s.at # "idle", rows' \subseteq rows,
           UNCHANGED <<nextId, ctx, tokens, accepted, spent>>,
           (s.at \in {"delete", "returned"} /\ s.told \in Answers) =>
              [query |-> q, lease |-> s.lease, told |-> s.told] \in accepted
    PROVE  QueryInv'
<1>1. caller' = [caller EXCEPT ![q] = s] /\ caller \in [Query -> CallerState]
  BY DEF Goto, QueryInv, TypeOK
<1>2. TypeOK'
  BY <1>1 DEF QueryInv, TypeOK
<1>3. TableInv'
  BY <1>1 DEF QueryInv, TableInv
<1>4. TokenInv' /\ AnswerInv'
  BY DEF QueryInv, TokenInv, AnswerInv
<1>5. OneAnswer'
  BY <1>1 DEF QueryInv, OneAnswer
<1> QED
  BY <1>2, <1>3, <1>4, <1>5 DEF QueryInv

(* Changing one row's status between PENDING and STARTED, with a lease     *)
(* that does not go down and no token of the lease when it is answered.    *)
LEMMA RowChangeKeeps ==
    ASSUME QueryInv, NEW row \in rows, NEW new \in Row,
           row.status \notin Answers, new.status \notin Answers,
           new.id = row.id, new.query = row.query, row.lease <= new.lease,
           rows' = (rows \ {row}) \cup {new},
           tokens' \subseteq tokens \cup {TokenOf(new)},
           spent' \in [expiries : Nat, lost : Nat],
           UNCHANGED <<nextId, caller, ctx, accepted>>
    PROVE  QueryInv'
<1>1. /\ rows \subseteq Row /\ nextId \in Nat /\ tokens \subseteq Token
      /\ row \in Row /\ TokenOf(new) \in Token
      /\ TokenOf(new).id = new.id /\ TokenOf(new).query = new.query
      /\ TokenOf(new).lease = new.lease
  BY RowTyped DEF QueryInv, TypeOK, Token, TokenOf
<1>2. TypeOK'
  BY <1>1 DEF QueryInv, TypeOK
<1>3. TableInv'
  <2>1. \A r \in rows' : r.id < nextId
    BY DEF QueryInv, TableInv
  <2>2. \A t \in tokens' : t.id < nextId
    BY <1>1 DEF QueryInv, TableInv
  <2>3. \A a, b \in rows' : (a.id = b.id \/ a.query = b.query) => a = b
    BY DEF QueryInv, TableInv
  <2>4. \A q \in Query : caller[q].at = "idle" =>
          /\ \A r \in rows' : r.query # q
          /\ \A a \in accepted : a.query # q
    BY DEF QueryInv, TableInv
  <2> QED
    BY <2>1, <2>2, <2>3, <2>4 DEF TableInv
<1>4. TokenInv'
  <2> SUFFICES ASSUME NEW t \in tokens', NEW r \in rows', r.id = t.id
               PROVE  /\ t.query = r.query /\ t.lease <= r.lease
                      /\ r.status \in Answers => t.lease # r.lease
    BY DEF TokenInv
  <2>1. CASE t \in tokens /\ r # new
    BY <2>1 DEF QueryInv, TokenInv
  <2>2. CASE t \in tokens /\ r = new
    <3>1. t.query = row.query /\ t.lease <= row.lease
      BY <2>2 DEF QueryInv, TokenInv
    <3>2. t.lease \in Nat /\ row.lease \in Nat /\ new.lease \in Nat
      BY <1>1, <2>2, RowTyped DEF Token
    <3> QED
      BY <2>2, <3>1, <3>2
  <2>3. CASE t = TokenOf(new)
    <3>1. r = new
      BY <1>1, <2>3 DEF QueryInv, TableInv
    <3>2. new.lease \in Nat
      BY RowTyped
    <3> QED
      BY <1>1, <2>3, <3>1, <3>2
  <2> QED
    BY <2>1, <2>2, <2>3
<1>5. AnswerInv'
  <2>1. \A a \in accepted : a.query # row.query
    BY DEF QueryInv, AnswerInv, TypeOK
  <2> QED
    BY <2>1 DEF QueryInv, AnswerInv
<1>6. OneAnswer'
  BY DEF QueryInv, OneAnswer
<1> QED
  BY <1>2, <1>3, <1>4, <1>5, <1>6 DEF QueryInv

-----------------------------------------------------------------------------
(* Every step of a handler keeps the invariant.                            *)
LEMMA HandlerKeeps ==
    ASSUME QueryInv, NEW q \in Query, Handler(q)
    PROVE  QueryInv'
<1>0. caller[q] \in CallerState
  BY DEF QueryInv, TypeOK
<1>1. CASE GetQueryResult(q)
  <2>1. PICK row \in RowsOf(q) :
           Goto(q, IF row.status \in Answers
                   THEN Told("delete", row.status, row.lease) ELSE At("select"))
    BY <1>1 DEF GetQueryResult
  <2>2. row \in rows /\ row.query = q /\ row.lease \in Nat
    BY RowTyped DEF RowsOf, QueryInv, TypeOK
  <2>3. caller[q].at # "idle" /\ UNCHANGED <<rows, nextId, ctx, tokens, accepted, spent>>
    BY <1>1 DEF GetQueryResult
  <2>4. CASE row.status \in Answers
    <3> DEFINE s == Told("delete", row.status, row.lease)
    <3>1. s \in CallerState /\ s.at = "delete" /\ s.told = row.status /\ s.lease = row.lease
      BY <2>2, <2>4 DEF Told, CallerState
    <3>2. [query |-> q, lease |-> s.lease, told |-> s.told] \in accepted
      BY <2>2, <2>4, <3>1 DEF QueryInv, AnswerInv
    <3>3. Goto(q, s)
      BY <2>1, <2>4
    <3> HIDE DEF s
    <3> QED
      BY <2>3, <3>1, <3>2, <3>3, MoveKeeps
  <2>5. CASE row.status \notin Answers
    <3>1. At("select") \in CallerState /\ At("select").at = "select"
      BY DEF At, CallerState
    <3>2. Goto(q, At("select"))
      BY <2>1, <2>5
    <3> QED
      BY <2>3, <3>1, <3>2, MoveKeeps
  <2> QED
    BY <2>4, <2>5
<1>2. CASE GetQueryResultFails(q)
  <2>1. LET s == Told("returned", "error", 0)
        IN  s \in CallerState /\ s.at = "returned" /\ s.told \notin Answers
    BY DEF Told, CallerState, Answers
  <2> QED
    BY <1>2, <2>1, MoveKeeps DEF GetQueryResultFails
<1>3. CASE DeleteAnswered(q)
  <2> DEFINE s == [caller[q] EXCEPT !.at = "returned"]
  <2>1. caller[q].at = "delete"
    BY <1>3 DEF DeleteAnswered
  <2>2. /\ s \in CallerState /\ s.at = "returned"
        /\ s.told = caller[q].told /\ s.lease = caller[q].lease
    BY <1>0, <2>1 DEF CallerState
  <2>3. s.told \in Answers =>
           [query |-> q, lease |-> s.lease, told |-> s.told] \in accepted
    BY <2>1, <2>2 DEF QueryInv, OneAnswer
  <2>4. Goto(q, s) /\ rows' \subseteq rows /\ UNCHANGED <<nextId, ctx, tokens, accepted, spent>>
    BY <1>3 DEF DeleteAnswered
  <2> HIDE DEF s
  <2> QED
    BY <2>2, <2>3, <2>4, DeleteKeeps
<1>4. CASE Tick(q)
  <2>1. At("read") \in CallerState /\ At("read").at = "read"
    BY DEF At, CallerState
  <2> QED
    BY <1>4, <2>1, MoveKeeps DEF Tick
<1>5. CASE GiveUp(q)
  <2>1. At("abandon") \in CallerState /\ At("abandon").at = "abandon"
    BY DEF At, CallerState
  <2> QED
    BY <1>5, <2>1, MoveKeeps DEF GiveUp
<1>6. CASE DeleteAbandoned(q)
  <2>1. LET s == Told("returned", "timeout", 0)
        IN  s \in CallerState /\ s.at = "returned" /\ s.told \notin Answers
    BY DEF Told, CallerState, Answers
  <2> QED
    BY <1>6, <2>1, DeleteKeeps DEF DeleteAbandoned
<1> QED
  BY <1>1, <1>2, <1>3, <1>4, <1>5, <1>6 DEF Handler

-----------------------------------------------------------------------------
(* Issuing a query: its row is new and the first of its query.             *)
LEMMA EnqueueKeeps ==
    ASSUME QueryInv, NEW q \in Query, EnqueueQuery(q)
    PROVE  QueryInv'
<1> DEFINE new == [id |-> nextId, query |-> q, status |-> "PENDING", lease |-> 0]
<1>1. /\ rows \subseteq Row /\ nextId \in Nat /\ tokens \subseteq Token
      /\ caller \in [Query -> CallerState]
  BY DEF QueryInv, TypeOK
<1>2. new \in Row
  BY <1>1 DEF Row, RowStatus
<1>3. /\ caller[q].at = "idle" /\ rows' = rows \cup {new} /\ nextId' = nextId + 1
      /\ caller' = [caller EXCEPT ![q] = At("read")]
      /\ UNCHANGED <<ctx, tokens, accepted, spent>>
  BY DEF EnqueueQuery, Goto
<1>4. At("read") \in CallerState /\ At("read").at = "read"
  BY DEF At, CallerState
<1>5. /\ \A row \in rows : row.query # q /\ row.id \in Nat /\ row.id < nextId
      /\ \A a \in accepted : a.query # q
      /\ \A tok \in tokens : tok.id \in Nat /\ tok.id < nextId
  BY <1>1, <1>3, RowTyped DEF QueryInv, TableInv, Token
<1>6. TypeOK'
  BY <1>1, <1>2, <1>3, <1>4 DEF QueryInv, TypeOK
<1>7. TableInv'
  <2>1. \A row \in rows' : row.id < nextId'
    BY <1>1, <1>3, <1>5
  <2>2. \A tok \in tokens' : tok.id < nextId'
    BY <1>1, <1>3, <1>5
  <2>3. \A a, b \in rows' : (a.id = b.id \/ a.query = b.query) => a = b
    BY <1>1, <1>3, <1>5 DEF QueryInv, TableInv
  <2>4. \A p \in Query : caller'[p].at = "idle" =>
          /\ \A row \in rows' : row.query # p
          /\ \A a \in accepted' : a.query # p
    BY <1>1, <1>3, <1>4 DEF QueryInv, TableInv
  <2> QED
    BY <2>1, <2>2, <2>3, <2>4 DEF TableInv
<1>8. TokenInv'
  BY <1>1, <1>3, <1>5 DEF QueryInv, TokenInv
<1>9. AnswerInv'
  BY <1>3, <1>5 DEF QueryInv, AnswerInv, Answers
<1>10. OneAnswer'
  BY <1>1, <1>3, <1>4 DEF QueryInv, OneAnswer
<1> QED
  BY <1>6, <1>7, <1>8, <1>9, <1>10 DEF QueryInv

(* DequeueQueryTask: a new lease on a row that has no answer.              *)
LEMMA DispatchKeeps ==
    ASSUME QueryInv, NEW delivered \in BOOLEAN, DispatchQuery(delivered)
    PROVE  QueryInv'
<1>1. PICK row \in rows :
         /\ row.status = "PENDING"
         /\ rows' = (rows \ {row}) \cup {Leased(row)}
         /\ tokens' \subseteq tokens \cup {TokenOf(Leased(row))}
  BY DEF DispatchQuery
<1>2. row \in Row /\ row.lease \in Nat
  BY RowTyped DEF QueryInv, TypeOK
<1>3. /\ Leased(row) \in Row
      /\ Leased(row).id = row.id /\ Leased(row).query = row.query
      /\ Leased(row).status = "STARTED" /\ Leased(row).lease = row.lease + 1
  BY <1>2, LeasedRowTyped
<1>4. spent' \in [expiries : Nat, lost : Nat]
  BY DEF DispatchQuery, QueryInv, TypeOK
<1>5. UNCHANGED <<nextId, caller, ctx, accepted>>
  BY DEF DispatchQuery
<1>6. /\ row.status \notin Answers /\ Leased(row).status \notin Answers
      /\ row.lease <= Leased(row).lease
  BY <1>1, <1>2, <1>3 DEF Answers
<1> QED
  BY <1>1, <1>3, <1>4, <1>5, <1>6, RowChangeKeeps

(* Reaping: the row keeps its lease number, and its token is void.         *)
LEMMA ReapKeeps ==
    ASSUME QueryInv, ReapExpiredQueryTask
    PROVE  QueryInv'
<1>1. PICK row \in rows :
         /\ row.status = "STARTED"
         /\ rows' = (rows \ {row}) \cup {[row EXCEPT !.status = "PENDING"]}
  BY DEF ReapExpiredQueryTask, Expired
<1> DEFINE new == [row EXCEPT !.status = "PENDING"]
<1>2. row \in Row /\ row.lease \in Nat
  BY RowTyped DEF QueryInv, TypeOK
<1>3. /\ new \in Row /\ new.id = row.id /\ new.query = row.query
      /\ new.status = "PENDING" /\ new.lease = row.lease
  <2>1. "PENDING" \in RowStatus
    BY DEF RowStatus
  <2> QED
    BY <1>2, <2>1, RowTyped
<1>4. spent' \in [expiries : Nat, lost : Nat]
  BY DEF ReapExpiredQueryTask, QueryInv, TypeOK
<1>5. UNCHANGED <<nextId, caller, ctx, tokens, accepted>>
  BY DEF ReapExpiredQueryTask
<1>6. rows' = (rows \ {row}) \cup {new}
  BY <1>1
<1>7. row.status \notin Answers /\ new.status \notin Answers /\ row.lease <= new.lease
  BY <1>1, <1>2, <1>3 DEF Answers
<1> HIDE DEF new
<1> QED
  BY <1>3, <1>4, <1>5, <1>6, <1>7, RowChangeKeeps

(* CompleteQuery and FailQuery: the one row the token holds, if any, was   *)
(* STARTED, so nothing had been accepted for its query.                    *)
LEMMA RespondKeeps ==
    ASSUME QueryInv, NEW tok \in tokens, NEW what \in Answers,
           RespondQueryTask(tok, what)
    PROVE  QueryInv'
<1>1. /\ rows \subseteq Row /\ tokens \subseteq Token /\ nextId \in Nat
      /\ accepted \subseteq [query : Query, lease : Nat, told : Answers]
      /\ tok.query \in Query /\ tok.lease \in Nat /\ what \in RowStatus
  BY DEF QueryInv, TypeOK, Token, Answers, RowStatus
<1>2. /\ tokens' = tokens \ {tok}
      /\ rows' = {IF Holds(row, tok) THEN [row EXCEPT !.status = what] ELSE row :
                     row \in rows}
      /\ accepted' = IF \E row \in rows : Holds(row, tok)
                     THEN accepted \cup {[query |-> tok.query, lease |-> tok.lease,
                                          told |-> what]}
                     ELSE accepted
      /\ UNCHANGED <<nextId, caller, ctx, spent>>
  BY DEF RespondQueryTask
<1>3. CASE \A row \in rows : ~Holds(row, tok)
  <2>1. rows' = rows /\ accepted' = accepted
    BY <1>2, <1>3
  <2>2. TypeOK' /\ TableInv'
    BY <1>2, <2>1 DEF QueryInv, TypeOK, TableInv
  <2>3. TokenInv' /\ AnswerInv' /\ OneAnswer'
    BY <1>2, <2>1 DEF QueryInv, TokenInv, AnswerInv, OneAnswer
  <2> QED
    BY <2>2, <2>3 DEF QueryInv
<1>4. CASE \E row \in rows : Holds(row, tok)
  <2>1. PICK row \in rows : Holds(row, tok)
    BY <1>4
  <2> DEFINE new == [row EXCEPT !.status = what]
             acc == [query |-> tok.query, lease |-> tok.lease, told |-> what]
  <2>2. row.id = tok.id /\ row.lease = tok.lease /\ row.status # "PENDING"
    BY <2>1 DEF Holds
  <2>3. tok.query = row.query /\ row.status \notin Answers
    BY <2>2 DEF QueryInv, TokenInv
  <2>4. /\ new \in Row /\ new.id = row.id /\ new.query = row.query
        /\ new.status = what /\ new.lease = row.lease
    BY <1>1, RowTyped
  <2>5. \A r \in rows : r # row => ~Holds(r, tok)
    BY <2>2 DEF QueryInv, TableInv, Holds
  <2>6. rows' = (rows \ {row}) \cup {new}
    BY <1>2, <2>1, <2>5
  <2>7. accepted' = accepted \cup {acc}
    BY <1>2, <1>4
  <2>8. /\ acc \in [query : Query, lease : Nat, told : Answers]
        /\ acc.query = row.query /\ acc.lease = row.lease /\ acc.told = what
        /\ acc = [query |-> new.query, lease |-> new.lease, told |-> new.status]
    BY <1>1, <2>2, <2>3, <2>4
  <2>9. \A a \in accepted : a.query # row.query
    BY <1>1, <2>3 DEF QueryInv, AnswerInv
  <2> HIDE DEF new, acc
  <2>10. TypeOK'
    BY <1>2, <2>4, <2>6, <2>7, <2>8 DEF QueryInv, TypeOK
  <2>11. TableInv'
    <3>1. \A r \in rows' : r.id < nextId'
      BY <1>2, <2>4, <2>6 DEF QueryInv, TableInv
    <3>2. \A t \in tokens' : t.id < nextId'
      BY <1>2 DEF QueryInv, TableInv
    <3>3. \A a, b \in rows' : (a.id = b.id \/ a.query = b.query) => a = b
      BY <2>4, <2>6 DEF QueryInv, TableInv
    <3>4. \A p \in Query : caller'[p].at = "idle" =>
            /\ \A r \in rows' : r.query # p
            /\ \A a \in accepted' : a.query # p
      BY <1>2, <2>4, <2>6, <2>7, <2>8 DEF QueryInv, TableInv
    <3> QED
      BY <3>1, <3>2, <3>3, <3>4 DEF TableInv
  <2>12. TokenInv'
    <3> SUFFICES ASSUME NEW t \in tokens', NEW r \in rows', r.id = t.id
                 PROVE  /\ t.query = r.query /\ t.lease <= r.lease
                        /\ r.status \in Answers => t.lease # r.lease
      BY DEF TokenInv
    <3>1. t \in tokens /\ t # tok
      BY <1>2
    <3>2. CASE r # new
      BY <2>6, <3>1, <3>2 DEF QueryInv, TokenInv
    <3>3. CASE r = new
      <4>1. t.query = row.query /\ t.lease <= row.lease /\ t.id = tok.id
        BY <2>2, <2>4, <3>1, <3>3 DEF QueryInv, TokenInv
      <4>2. t.query = tok.query
        BY <2>3, <4>1
      <4>3. t \in Token /\ tok \in Token
        BY <1>1, <3>1
      <4>4. t.lease # tok.lease
        BY <3>1, <4>1, <4>2, <4>3 DEF Token
      <4> QED
        BY <2>2, <2>4, <3>3, <4>1, <4>4
    <3> QED
      BY <3>2, <3>3
  <2>13. AnswerInv'
    <3>1. \A a \in accepted', r \in rows' : a.query = r.query =>
            /\ r.status = a.told /\ r.lease = a.lease
      <4> SUFFICES ASSUME NEW a \in accepted', NEW r \in rows', a.query = r.query
                   PROVE  r.status = a.told /\ r.lease = a.lease
        OBVIOUS
      <4>1. CASE a \in accepted
        BY <2>4, <2>6, <2>9, <4>1 DEF QueryInv, AnswerInv
      <4>2. CASE a = acc
        <5>1. r = new
          BY <2>4, <2>6, <2>8, <4>2 DEF QueryInv, TableInv
        <5> QED
          BY <2>4, <2>8, <4>2, <5>1
      <4> QED
        BY <2>7, <4>1, <4>2
    <3>2. \A r \in rows' : r.status \in Answers =>
            [query |-> r.query, lease |-> r.lease, told |-> r.status] \in accepted'
      BY <2>6, <2>7, <2>8 DEF QueryInv, AnswerInv
    <3> QED
      BY <3>1, <3>2 DEF AnswerInv
  <2>14. OneAnswer'
    <3>1. \A a, b \in accepted' : a.query = b.query => a = b
      BY <2>7, <2>8, <2>9 DEF QueryInv, OneAnswer
    <3> QED
      BY <1>2, <2>7, <3>1 DEF QueryInv, OneAnswer
  <2> QED
    BY <2>10, <2>11, <2>12, <2>13, <2>14 DEF QueryInv
<1> QED
  BY <1>3, <1>4

-----------------------------------------------------------------------------
(* QueryInv is inductive: one case per action.                             *)
LEMMA QueryInvStep == QueryInv /\ [Next]_vars => QueryInv'
<1> SUFFICES ASSUME QueryInv, [Next]_vars PROVE QueryInv'
  OBVIOUS
<1>1. ASSUME NEW q \in Query, EnqueueQuery(q) PROVE QueryInv'
  BY <1>1, EnqueueKeeps
<1>2. ASSUME NEW q \in Query, EnqueueNotFound(q) PROVE QueryInv'
  <2>1. LET s == Told("returned", "error", 0)
        IN  s \in CallerState /\ s.at = "returned" /\ s.told \notin Answers
    BY DEF Told, CallerState, Answers
  <2> QED
    BY <1>2, <2>1, MoveKeeps DEF EnqueueNotFound
<1>3. ASSUME NEW q \in Query, ContextEnds(q) PROVE QueryInv'
  <2>1. TypeOK' /\ TableInv'
    BY <1>3 DEF ContextEnds, QueryInv, TypeOK, TableInv
  <2>2. TokenInv' /\ AnswerInv' /\ OneAnswer'
    BY <1>3 DEF ContextEnds, QueryInv, TokenInv, AnswerInv, OneAnswer
  <2> QED
    BY <2>1, <2>2 DEF QueryInv
<1>4. ASSUME NEW q \in Query, Handler(q) PROVE QueryInv'
  BY <1>4, HandlerKeeps
<1>5. ASSUME NEW d \in BOOLEAN, DispatchQuery(d) PROVE QueryInv'
  BY <1>5, DispatchKeeps
<1>6. ASSUME NEW tok \in tokens, NEW what \in Answers, RespondQueryTask(tok, what)
      PROVE  QueryInv'
  BY <1>6, RespondKeeps
<1>7. CASE ReapExpiredQueryTask
  BY <1>7, ReapKeeps
<1>8. CASE UNCHANGED vars
  <2>1. TypeOK' /\ TableInv'
    BY <1>8 DEF vars, QueryInv, TypeOK, TableInv
  <2>2. TokenInv' /\ AnswerInv' /\ OneAnswer'
    BY <1>8 DEF vars, QueryInv, TokenInv, AnswerInv, OneAnswer
  <2> QED
    BY <2>1, <2>2 DEF QueryInv
<1> QED
  BY <1>1, <1>2, <1>3, <1>4, <1>5, <1>6, <1>7, <1>8 DEF Next

(* Whatever leases lapse and however late workers answer, a query has one  *)
(* recorded answer at most, and it is the one its client is given          *)
(* (CompleteQuery, FailQuery, QueryWorkflowExecution).                     *)
THEOREM QueryAnsweredOnce == Spec => []OneAnswer
<1>1. QueryInv => OneAnswer
  BY DEF QueryInv
<1> QED
  BY QueryInvInit, QueryInvStep, <1>1, PTL DEF Spec

-----------------------------------------------------------------------------
(* What a returned handler leaves behind.                                  *)

(* RowsCleanedUp is not inductive alone: an answered handler deletes its   *)
(* row only while its context lives, so none may be about to return a      *)
(* timeout from there.                                                     *)
CleanInv ==
    RowsCleanedUp /\ \A q \in Query : caller[q].at = "delete" => caller[q].told \in Answers

(* Workers and the reaper change rows of queries that have one already.    *)
LEMMA WorkersAddNoRow ==
    ASSUME QueryInv,
           \/ \E d \in BOOLEAN : DispatchQuery(d)
           \/ \E tok \in tokens, what \in Answers : RespondQueryTask(tok, what)
           \/ ReapExpiredQueryTask
    PROVE  /\ UNCHANGED <<caller, ctx>>
           /\ \A new \in rows' : \E old \in rows : old.query = new.query
<1>0. rows \subseteq Row
  BY DEF QueryInv, TypeOK
<1>1. ASSUME NEW d \in BOOLEAN, DispatchQuery(d)
      PROVE  /\ UNCHANGED <<caller, ctx>>
             /\ \A new \in rows' : \E old \in rows : old.query = new.query
  BY <1>0, <1>1, LeasedRowTyped DEF DispatchQuery
<1>2. ASSUME NEW tok \in tokens, NEW what \in Answers, RespondQueryTask(tok, what)
      PROVE  /\ UNCHANGED <<caller, ctx>>
             /\ \A new \in rows' : \E old \in rows : old.query = new.query
  <2>1. \A row \in rows : [row EXCEPT !.status = what].query = row.query
    BY <1>0, RowTyped DEF Answers, RowStatus
  <2> QED
    BY <1>2, <2>1 DEF RespondQueryTask
<1>3. ASSUME ReapExpiredQueryTask
      PROVE  /\ UNCHANGED <<caller, ctx>>
             /\ \A new \in rows' : \E old \in rows : old.query = new.query
  <2>1. \A row \in rows : [row EXCEPT !.status = "PENDING"].query = row.query
    BY <1>0, RowTyped DEF RowStatus
  <2> QED
    BY <1>3, <2>1 DEF ReapExpiredQueryTask
<1> QED
  BY <1>1, <1>2, <1>3

LEMMA HandlerCleans ==
    ASSUME QueryInv, CleanInv, NEW q \in Query,
           EnqueueQuery(q) \/ EnqueueNotFound(q) \/ ContextEnds(q) \/ Handler(q)
    PROVE  CleanInv'
<1>0. /\ caller \in [Query -> CallerState] /\ caller[q] \in CallerState
      /\ ctx \in [Query -> BOOLEAN]
  BY DEF QueryInv, TypeOK
<1> DEFINE Clean(p) == /\ (caller[p].at = "returned" /\ (ctx[p] \/ caller[p].told = "timeout"))
                            => \A row \in rows : row.query # p
                       /\ caller[p].at = "delete" => caller[p].told \in Answers
<1>c. CleanInv <=> \A p \in Query : Clean(p)
  BY DEF CleanInv, RowsCleanedUp, RowsOf
<1>d. CleanInv' <=> \A p \in Query : Clean(p)'
  BY DEF CleanInv, RowsCleanedUp, RowsOf
<1>1. ASSUME NEW p \in Query, p # q PROVE Clean(p)'
  <2>1. caller'[p] = caller[p] /\ ctx'[p] = ctx[p]
    BY <1>0, <1>1 DEF EnqueueQuery, EnqueueNotFound, ContextEnds, Handler,
         GetQueryResult, GetQueryResultFails, DeleteAnswered, Tick, GiveUp,
         DeleteAbandoned, Goto
  <2>2. \A row \in rows' : row \in rows \/ row.query = q
    BY DEF EnqueueQuery, EnqueueNotFound, ContextEnds, Handler,
         GetQueryResult, GetQueryResultFails, DeleteAnswered, Tick, GiveUp,
         DeleteAbandoned
  <2> QED
    BY <1>c, <1>1, <2>1, <2>2
<1>2. Clean(q)'
  <2>1. CASE EnqueueQuery(q) \/ Tick(q) \/ GiveUp(q)
    BY <1>0, <2>1 DEF EnqueueQuery, Tick, GiveUp, Goto, At
  <2>2. CASE EnqueueNotFound(q)
    BY <1>0, <2>2 DEF EnqueueNotFound, Goto, Told, QueryInv, TableInv
  <2>3. CASE ContextEnds(q)
    BY <1>0, <1>c, <2>3 DEF ContextEnds
  <2>4. CASE GetQueryResult(q)
    BY <1>0, <2>4 DEF GetQueryResult, Goto, Told, At
  <2>5. CASE GetQueryResultFails(q)
    BY <1>0, <2>5 DEF GetQueryResultFails, Goto, Told
  <2>6. CASE DeleteAnswered(q)
    <3>1. /\ caller'[q].at = "returned" /\ caller'[q].told \in Answers
          /\ ctx'[q] = ctx[q]
      BY <1>0, <1>c, <2>6 DEF DeleteAnswered, Goto, CallerState
    <3>2. ctx[q] => \A row \in rows' : row.query # q
      BY <2>6 DEF DeleteAnswered, RowsOf
    <3> QED
      BY <3>1, <3>2 DEF Answers
  <2>7. CASE DeleteAbandoned(q)
    BY <1>0, <2>7 DEF DeleteAbandoned, Goto, Told, RowsOf
  <2> QED
    BY <2>1, <2>2, <2>3, <2>4, <2>5, <2>6, <2>7 DEF Handler
<1> QED
  BY <1>1, <1>2, <1>d

(* A handler that returned with its context alive, or after giving up, has *)
(* left no row of its query behind, and neither a worker's late answer nor *)
(* the reaper brings one back (QueryWorkflowExecution, DeleteQueryTask).   *)
THEOREM QueryRowsCleanedUp == Spec => []RowsCleanedUp
<1>1. Init => CleanInv
  BY DEF Init, CleanInv, RowsCleanedUp, RowsOf, At
<1>2. QueryInv /\ CleanInv /\ [Next]_vars => CleanInv'
  <2> SUFFICES ASSUME QueryInv, CleanInv, [Next]_vars PROVE CleanInv'
    OBVIOUS
  <2>1. ASSUME UNCHANGED <<caller, ctx>>,
               \A new \in rows' : \E old \in rows : old.query = new.query
        PROVE  CleanInv'
    BY <2>1 DEF CleanInv, RowsCleanedUp, RowsOf
  <2>2. CASE UNCHANGED vars
    BY <2>1, <2>2 DEF vars
  <2> QED
    BY <2>1, <2>2, HandlerCleans, WorkersAddNoRow DEF Next
<1>3. CleanInv => RowsCleanedUp
  BY DEF CleanInv
<1> QED
  BY <1>1, <1>2, <1>3, QueryInvInit, QueryInvStep, PTL DEF Spec
=============================================================================
