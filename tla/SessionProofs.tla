---------------------------- MODULE SessionProofs ----------------------------
(***************************************************************************)
(* Proofs about those who wait for an answer: the client of one Postgres   *)
(* connection, for any number of slots, names, queries and rows, and the   *)
(* server's own connections, for any number of them and of errors. The     *)
(* argument about the latter: from the moment a query's thread has read the*)
(* error count until it compares it, the count has grown by the errors of  *)
(* the query itself and those of the others.                               *)
(***************************************************************************)
EXTENDS PgSession, Server, SequenceTheorems, FiniteSetTheorems, WellFoundedInduction, TLAPS

(* The rows 1 .. k.                                                        *)
FirstRows(k) == [j \in 1 .. k |-> j]

(* What holds of every portal that was made by Bind: its query has run at   *)
(* most once, and it was sent the first rows_sent rows of the result.      *)
PortalInv(p) ==
  /\ p \in Portal
  /\ p.runs = IF p.executed THEN 1 ELSE 0
  /\ ~p.executed => p.rows = NoRows /\ p.last = "none"
  /\ p.rows = NoRows => p.rows_sent = 0
  /\ p.delivered = FirstRows(p.rows_sent)
  /\ p.rows # NoRows => /\ p.rows_sent <= p.rows
                        /\ p.last = "complete" => p.rows_sent = p.rows
                        /\ p.last = "suspended" => p.rows_sent < p.rows

StatementType ==
  /\ DOMAIN statements = 1 .. MaxStatements
  /\ \A i \in InUse(statements) : statements[i].sql \in Queries

PortalsInv ==
  /\ DOMAIN portals = 1 .. MaxPortals
  /\ \A i \in InUse(portals) : PortalInv(portals[i])

(* What is replied, as long as nothing has failed.                         *)
Answers == {"parse complete", "bind complete", "close complete", "description",
            "suspended", "complete"}

RepliesInv ==
  /\ replies \in Seq(Answers \cup {"error"})
  /\ in_failed_pipeline \in BOOLEAN
  /\ QuietAfterError

-------------------------------------------------------------------------------
(* Helpers                                                                 *)

(* A set of numbers that is not empty has a minimum.                       *)
LEMMA MinOfNats ==
  ASSUME NEW S, S \subseteq Nat, S # {}
  PROVE  Min(S) \in S /\ \A y \in S : Min(S) <= y
<1> DEFINE R == {ss \in Nat \X Nat : ss[1] < ss[2]}
<1>1. IsWellFoundedOn(R, Nat)
  BY NatLessThanWellFounded DEF OpToRel
<1>2. \A x, y \in Nat : <<y, x>> \in R <=> y < x
  OBVIOUS
<1> HIDE DEF R
<1>3. PICK x \in S : \A y \in S : ~(<<y, x>> \in R)
  BY <1>1, WFMin
<1>4. \A y \in S : x <= y
  <2> TAKE y \in S
  <2>1. x \in Nat /\ y \in Nat
    OBVIOUS
  <2>2. ~(y < x)
    BY <2>1, <1>2, <1>3, Zenon
  <2> QED BY <2>1, <2>2
<1> QED BY <1>4 DEF Min

(* Rows a + 1 .. a + b behind rows 1 .. a are rows 1 .. a + b.             *)
LEMMA RowsAppended ==
  ASSUME NEW a \in Nat, NEW b \in Nat
  PROVE  FirstRows(a) \o [j \in 1 .. b |-> a + j] = FirstRows(a + b)
<1> DEFINE s == FirstRows(a)
           t == [j \in 1 .. b |-> a + j]
<1>1. s \in Seq(Nat) /\ Len(s) = a
  BY DEF FirstRows
<1>2. t \in Seq(Nat) /\ Len(t) = b
  OBVIOUS
<1>3. FirstRows(a + b) \in Seq(Nat) /\ Len(FirstRows(a + b)) = a + b
  BY DEF FirstRows
<1>4. s \o t \in Seq(Nat) /\ Len(s \o t) = a + b
  BY <1>1, <1>2
<1>5. \A i \in 1 .. a + b : (s \o t)[i] = FirstRows(a + b)[i]
  <2> TAKE i \in 1 .. a + b
  <2>1. CASE i <= a
    BY <2>1, <1>1, <1>2 DEF FirstRows
  <2>2. CASE i > a
    BY <2>2, <1>1, <1>2 DEF FirstRows
  <2>3. i <= a \/ i > a
    OBVIOUS
  <2> HIDE DEF s, t
  <2> QED BY <2>1, <2>2, <2>3
<1> HIDE DEF s, t
<1>6. s \o t = FirstRows(a + b)
  BY <1>3, <1>4, <1>5, SeqEqual
<1> QED BY <1>6 DEF s, t

(* Freeing a slot and taking one puts nothing else into a table.           *)
LEMMA AllocKeeps ==
  ASSUME NEW table, NEW slot
  PROVE  /\ DOMAIN Freed(table, slot.name) = DOMAIN table
         /\ DOMAIN Alloc(table, slot) = DOMAIN table
         /\ \A i \in InUse(Freed(table, slot.name)) :
              i \in InUse(table) /\ Freed(table, slot.name)[i] = table[i]
         /\ \A i \in InUse(Alloc(table, slot)) :
              \/ Alloc(table, slot)[i] = slot
              \/ i \in InUse(table) /\ Alloc(table, slot)[i] = table[i]
BY DEF Alloc, Freed, InUse
-------------------------------------------------------------------------------
(* Portals                                                                 *)

(* A new portal has not run.                                               *)
LEMMA NewPortalInv ==
  ASSUME NEW p \in Names, NEW q \in Queries
  PROVE  PortalInv(NewPortal(p, q))
BY DEF NewPortal, PortalInv, Portal, FirstRows

(* Executing a portal that has run changes nothing; one that has not run    *)
(* has its query run, once.                                                *)
LEMMA ExecutedInv ==
  ASSUME NEW p, PortalInv(p), NEW ok \in BOOLEAN
  PROVE  PortalInv(Executed(p, ok)) /\ Executed(p, ok).executed
<1>1. CASE p.executed
  BY <1>1 DEF Executed
<1>2. CASE ~p.executed
  <2> DEFINE rows   == IF ok THEN p.sql.rows ELSE NoRows
             failed == ~ok
             run    == p.runs + 1
             e      == [p EXCEPT !.executed = TRUE, !.had_error = failed, !.runs = run,
                                 !.rows = rows]
  <2>1. p \in Portal /\ p.runs = 0 /\ p.rows_sent = 0 /\ p.last = "none"
    BY <1>2 DEF PortalInv
  <2>2. rows \in Nat \cup {NoRows}
    BY <2>1, PgSessionAssumption DEF Portal
  <2>3. failed \in BOOLEAN /\ run \in Nat /\ run = 1
    BY <2>1
  <2>4. Executed(p, ok) = e
    BY <1>2 DEF Executed
  <2> HIDE DEF rows, failed, run
  <2>5. e \in Portal
    BY <2>3, <2>1, <2>2 DEF Portal
  <2>6. /\ e.executed = TRUE /\ e.runs = run /\ e.rows = rows
        /\ e.rows_sent = p.rows_sent /\ e.last = p.last /\ e.delivered = p.delivered
    BY <2>1 DEF Portal
  <2> HIDE DEF e
  <2>7. PortalInv(e)
    BY <2>3, <2>1, <2>2, <2>6, <2>5 DEF PortalInv
  <2> QED BY <2>6, <2>4, <2>7
<1> QED BY <1>1, <1>2

(* A piece of the rows goes behind those that were sent before.            *)
LEMMA FetchedInv ==
  ASSUME NEW p, PortalInv(p), p.executed, p.rows # NoRows, NEW max_rows \in Nat
  PROVE  LET f == Fetched(p, max_rows)
         IN  PortalInv([f EXCEPT !.last = IF Suspends(f, max_rows) THEN "suspended"
                                          ELSE "complete"])
<1> DEFINE count == ToSend(p, max_rows)
           f     == Fetched(p, max_rows)
           g     == [f EXCEPT !.last = IF Suspends(f, max_rows) THEN "suspended"
                                       ELSE "complete"]
<1>1. /\ p.rows \in Nat /\ p.rows_sent \in Nat /\ p.rows_sent <= p.rows
      /\ p.delivered = FirstRows(p.rows_sent)
  BY DEF PortalInv, Portal
<1>2. /\ count \in Nat /\ count <= p.rows - p.rows_sent
      /\ max_rows = 0 => count = p.rows - p.rows_sent
  BY <1>1, MinOfNats DEF ToSend
<1> HIDE DEF count
<1>3. f = [p EXCEPT !.rows_sent = @ + count,
                    !.delivered = @ \o [j \in 1 .. count |-> p.rows_sent + j]]
  BY DEF Fetched, count
<1>4. p.delivered \o [j \in 1 .. count |-> p.rows_sent + j] = FirstRows(p.rows_sent + count)
  BY <1>1, <1>2, RowsAppended
<1>5. FirstRows(p.rows_sent + count) \in Seq(Nat)
  BY <1>1, <1>2 DEF FirstRows
<1>6. f = [p EXCEPT !.rows_sent = p.rows_sent + count,
                    !.delivered = FirstRows(p.rows_sent + count)]
  BY <1>3, <1>4
<1> HIDE DEF f
<1>7. /\ f \in Portal /\ f.rows_sent = p.rows_sent + count
      /\ f.delivered = FirstRows(p.rows_sent + count) /\ f.rows = p.rows
      /\ f.runs = p.runs /\ f.executed = p.executed
  <2> DEFINE sent == p.rows_sent + count
             rows == FirstRows(p.rows_sent + count)
  <2>1. p \in Portal /\ sent \in Nat /\ rows \in Seq(Nat)
    BY <1>1, <1>2, <1>5 DEF PortalInv
  <2>2. f = [p EXCEPT !.rows_sent = sent, !.delivered = rows]
    BY <1>6
  <2> HIDE DEF sent, rows
  <2>3. /\ f \in Portal /\ f.rows_sent = sent /\ f.delivered = rows /\ f.rows = p.rows
        /\ f.runs = p.runs /\ f.executed = p.executed
    BY <2>1, <2>2 DEF Portal
  <2> QED BY <2>3 DEF sent, rows
<1>8. /\ g \in Portal /\ g.rows_sent = f.rows_sent /\ g.delivered = f.delivered
      /\ g.rows = f.rows /\ g.runs = f.runs /\ g.executed = f.executed
      /\ g.last = IF Suspends(f, max_rows) THEN "suspended" ELSE "complete"
  BY <1>7 DEF Portal
<1> HIDE DEF g
<1>9. PortalInv(g)
  BY <1>1, <1>2, <1>7, <1>8 DEF PortalInv, Suspends
<1> QED BY <1>9 DEF f, g

(* A query without a result set completes at once.                         *)
LEMMA CompletedInv ==
  ASSUME NEW p, PortalInv(p), p.executed, p.rows = NoRows
  PROVE  PortalInv([p EXCEPT !.last = "complete"])
BY DEF PortalInv, Portal
-------------------------------------------------------------------------------
(* The state                                                               *)

(* Nothing has failed where nothing was replied.                           *)
LEMMA NoReplies ==
  ASSUME replies = <<>>, in_failed_pipeline = FALSE
  PROVE  RepliesInv
<1>1. replies \in Seq(Answers \cup {"error"}) /\ DOMAIN replies = {}
  BY EmptySeq
<1> QED BY <1>1 DEF RepliesInv, QuietAfterError


IInv == StatementType /\ PortalsInv /\ RepliesInv

LEMMA InitInv == Init => IInv
<1> SUFFICES ASSUME Init PROVE IInv
  OBVIOUS
<1>1. StatementType /\ PortalsInv
  BY DEF Init, StatementType, PortalsInv, InUse
<1>2. replies = <<>> /\ in_failed_pipeline = FALSE
  BY DEF Init
<1>3. RepliesInv
  BY <1>2, NoReplies
<1> QED BY <1>1, <1>3 DEF IInv

(* A slot that is found by name is in use and in the table.                *)
LEMMA FoundInUse ==
  ASSUME NEW table, NEW n, Found(table, n) # {}, DOMAIN table \subseteq Nat
  PROVE  Min(Found(table, n)) \in InUse(table) /\ Min(Found(table, n)) \in DOMAIN table
<1>1. Found(table, n) \subseteq Nat
  BY DEF Found, InUse
<1>2. Min(Found(table, n)) \in Found(table, n)
  BY <1>1, MinOfNats
<1> QED BY <1>2 DEF Found, InUse

(* A reply that is no error leaves the connection as it is.                *)
LEMMA ReplyInv ==
  ASSUME RepliesInv, Heard, NEW r \in Answers, replies' = Append(replies, r),
         UNCHANGED in_failed_pipeline
  PROVE  RepliesInv'
<1>1. replies \in Seq(Answers \cup {"error"}) /\ in_failed_pipeline = FALSE
  BY DEF Heard, RepliesInv
<1>2. \A i \in DOMAIN replies : replies[i] # "error"
  BY <1>1 DEF RepliesInv, QuietAfterError
<1>3. r # "error"
  BY DEF Answers
<1>4. /\ replies' \in Seq(Answers \cup {"error"})
      /\ Len(replies') = Len(replies) + 1
      /\ \A i \in 1 .. Len(replies) : replies'[i] = replies[i]
      /\ replies'[Len(replies) + 1] = r
  BY <1>1, AppendProperties
<1>5. \A i \in DOMAIN replies' : replies'[i] # "error"
  <2>1. DOMAIN replies' = 1 .. Len(replies) + 1 /\ DOMAIN replies = 1 .. Len(replies)
    BY <1>1, <1>4
  <2>2. Len(replies) \in Nat
    BY <1>1
  <2> TAKE i \in DOMAIN replies'
  <2>3. i \in 1 .. Len(replies) \/ i = Len(replies) + 1
    BY <2>1, <2>2
  <2> QED BY <1>2, <1>3, <1>4, <2>1, <2>3
<1>6. in_failed_pipeline' = FALSE
  BY <1>1
<1> QED BY <1>4, <1>5, <1>6, Zenon DEF RepliesInv, QuietAfterError

(* After an error the pipeline has failed, whatever was replied before.    *)
LEMMA ErrorInv ==
  ASSUME RepliesInv, Error
  PROVE  RepliesInv'
<1>1. replies' = Append(replies, "error") /\ in_failed_pipeline' = TRUE
  BY DEF Error, Reply
<1>2. replies \in Seq(Answers \cup {"error"})
  BY DEF RepliesInv
<1>3. /\ replies' \in Seq(Answers \cup {"error"})
      /\ Len(replies') = Len(replies) + 1
      /\ \A i \in 1 .. Len(replies) : replies'[i] = replies[i]
      /\ replies'[Len(replies) + 1] = "error"
  BY <1>1, <1>2, AppendProperties
<1>4. /\ DOMAIN replies' = 1 .. Len(replies) + 1 /\ DOMAIN replies = 1 .. Len(replies)
      /\ Len(replies) \in Nat
  BY <1>2, <1>3
<1>5. \A i, j \in DOMAIN replies :
        i < j /\ replies[i] = "error" => replies[j] = "error"
  BY DEF RepliesInv, QuietAfterError
<1>6. \A i, j \in DOMAIN replies' :
        i < j /\ replies'[i] = "error" => replies'[j] = "error"
  BY <1>3, <1>4, <1>5
<1>7. \E i \in DOMAIN replies' : replies'[i] = "error"
  BY <1>3, <1>4
<1> QED BY <1>1, <1>3, <1>6, <1>7 DEF RepliesInv, QuietAfterError

-------------------------------------------------------------------------------
(* The messages                                                            *)

LEMMA ParseInv == ASSUME IInv, NEW n \in Names, NEW q \in Queries, Parse(n, q) PROVE IInv'
<1> DEFINE slot == [name |-> n, sql |-> q]
<1>1. statements' = Alloc(statements, slot) /\ portals' = portals
  BY DEF Parse
<1>2. RepliesInv'
  <2>1. replies' = Append(replies, "parse complete") /\ Heard /\ UNCHANGED in_failed_pipeline
    BY DEF Parse, Reply
  <2> QED BY <2>1, ReplyInv DEF IInv, Answers
<1>3. StatementType'
  <2>1. StatementType /\ slot.sql = q
    BY DEF IInv
  <2>2. /\ DOMAIN statements' = DOMAIN statements
        /\ \A i \in InUse(statements') :
             \/ statements'[i] = slot
             \/ i \in InUse(statements) /\ statements'[i] = statements[i]
    BY <1>1, AllocKeeps
  <2> HIDE DEF slot
  <2>3. \A i \in InUse(statements') : statements'[i].sql \in Queries
    BY <2>1, <2>2 DEF StatementType
  <2> QED BY <2>1, <2>2, <2>3 DEF StatementType, InUse
<1>4. PortalsInv'
  BY <1>1 DEF IInv, PortalsInv
<1> QED BY <1>2, <1>3, <1>4 DEF IInv

LEMMA BindInv == ASSUME IInv, NEW p \in Names, NEW n \in Names, Bind(p, n) PROVE IInv'
<1> DEFINE q    == statements[Min(Found(statements, n))].sql
           slot == NewPortal(p, q)
<1>1. portals' = Alloc(portals, slot) /\ statements' = statements
  BY DEF Bind
<1>2. RepliesInv'
  <2>1. replies' = Append(replies, "bind complete") /\ Heard /\ UNCHANGED in_failed_pipeline
    BY DEF Bind, Reply
  <2> QED BY <2>1, ReplyInv DEF IInv, Answers
<1>3. q \in Queries
  <2>1. Found(statements, n) # {}
    BY DEF Bind
  <2>2. DOMAIN statements \subseteq Nat
    BY DEF IInv, StatementType
  <2>3. Min(Found(statements, n)) \in InUse(statements)
    BY <2>1, <2>2, FoundInUse
  <2> QED BY <2>3 DEF IInv, StatementType
<1> HIDE DEF q
<1>4. PortalInv(slot)
  BY <1>3, NewPortalInv
<1>5. PortalsInv'
  <2> HIDE DEF slot
  <2>1. PortalsInv
    BY DEF IInv
  <2>2. /\ DOMAIN portals' = DOMAIN portals
        /\ \A i \in InUse(portals') :
             portals'[i] = slot \/ (i \in InUse(portals) /\ portals'[i] = portals[i])
    BY <1>1, AllocKeeps
  <2>3. \A i \in InUse(portals') : PortalInv(portals'[i])
    BY <1>4, <2>1, <2>2 DEF PortalsInv
  <2> QED BY <2>1, <2>2, <2>3 DEF PortalsInv, InUse
<1>6. StatementType'
  BY <1>1 DEF IInv, StatementType
<1> QED BY <1>2, <1>5, <1>6 DEF IInv

LEMMA CloseInv ==
  ASSUME IInv, NEW n \in Names, CloseStatement(n) \/ ClosePortal(n) \/ CloseNothing
  PROVE  IInv'
<1>1. RepliesInv'
  <2>1. replies' = Append(replies, "close complete") /\ Heard /\ UNCHANGED in_failed_pipeline
    BY DEF CloseStatement, ClosePortal, CloseNothing, Reply
  <2> QED BY <2>1, ReplyInv DEF IInv, Answers
<1>2. /\ statements' \in {statements, Freed(statements, n)}
      /\ portals' \in {portals, Freed(portals, n)}
  BY DEF CloseStatement, ClosePortal, CloseNothing
<1>3. StatementType'
  BY <1>2 DEF IInv, StatementType, Freed, InUse
<1>4. PortalsInv'
  BY <1>2 DEF IInv, PortalsInv, Freed, InUse
<1> QED BY <1>1, <1>3, <1>4 DEF IInv

LEMMA RefuseInv == ASSUME IInv, Refuse \/ Unsupported PROVE IInv'
<1>1. RepliesInv'
  BY ErrorInv DEF Refuse, Unsupported, IInv
<1> QED BY <1>1 DEF Refuse, Unsupported, IInv, StatementType, PortalsInv

LEMMA ReadyInv ==
  ASSUME IInv, Sync \/ \E q \in Queries, reached \in BOOLEAN : SimpleQuery(q, reached)
  PROVE  IInv'
<1>1. /\ replies' = <<>> /\ in_failed_pipeline' = FALSE
      /\ UNCHANGED <<statements, portals>>
  BY DEF Sync, SimpleQuery, Ready
<1>2. RepliesInv'
  <2>1. replies' \in Seq(Answers \cup {"error"}) /\ DOMAIN replies' = {}
    BY <1>1, EmptySeq
  <2> QED BY <1>1, <2>1 DEF RepliesInv, QuietAfterError
<1> QED BY <1>1, <1>2 DEF IInv, StatementType, PortalsInv

LEMMA DescribeStatementInv ==
  ASSUME IInv, NEW n \in Names, DescribeStatement(n)
  PROVE  IInv'
<1>1. RepliesInv'
  <2>1. replies' = Append(replies, "description") /\ Heard /\ UNCHANGED in_failed_pipeline
    BY DEF DescribeStatement, Reply
  <2> QED BY <2>1, ReplyInv DEF IInv, Answers
<1> QED BY <1>1 DEF DescribeStatement, IInv, StatementType, PortalsInv

LEMMA DescribePortalInv ==
  ASSUME IInv, NEW p \in Names, NEW ok \in BOOLEAN, DescribePortal(p, ok)
  PROVE  IInv'
<1> DEFINE i      == Min(Found(portals, p))
           portal == IF portals[i].sql.select THEN Executed(portals[i], ok) ELSE portals[i]
<1>1. i \in InUse(portals)
  BY FoundInUse DEF DescribePortal, IInv, PortalsInv
<1>2. PortalInv(portal)
  BY <1>1, ExecutedInv DEF IInv, PortalsInv
<1>3. portals' = [portals EXCEPT ![i] = portal] /\ statements' = statements
  BY DEF DescribePortal
<1>4. RepliesInv'
  <2>1. /\ Heard
        /\ \/ Error
           \/ replies' = Append(replies, "description") /\ UNCHANGED in_failed_pipeline
    BY DEF DescribePortal, Reply
  <2> QED BY <2>1, ErrorInv, ReplyInv DEF IInv, Answers
<1> HIDE DEF i, portal
<1>5. PortalsInv'
  BY <1>2, <1>3 DEF IInv, PortalsInv, InUse
<1> QED BY <1>3, <1>4, <1>5 DEF IInv, StatementType

LEMMA ExecuteInv ==
  ASSUME IInv, NEW p \in Names, NEW max_rows \in 0 .. MaxFetch, NEW ok \in BOOLEAN,
         Execute(p, max_rows, ok)
  PROVE  IInv'
<1> DEFINE i       == Min(Found(portals, p))
           portal  == Executed(portals[i], ok)
           fetched == Fetched(portal, max_rows)
           last    == IF portal.rows # NoRows /\ Suspends(fetched, max_rows)
                      THEN "suspended" ELSE "complete"
           sent    == [(IF portal.rows = NoRows THEN portal ELSE fetched) EXCEPT !.last = last]
<1>1. i \in InUse(portals)
  BY FoundInUse DEF Execute, IInv, PortalsInv
<1>2. PortalInv(portal) /\ portal.executed
  BY <1>1, ExecutedInv DEF IInv, PortalsInv
<1>3. PortalInv(sent)
  <2>1. CASE portal.rows = NoRows
    BY <1>2, <2>1, CompletedInv
  <2>2. CASE portal.rows # NoRows
    <3>1. max_rows \in Nat
      BY PgSessionAssumption
    <3> QED BY <1>2, <2>2, <3>1, FetchedInv
  <2> QED BY <2>1, <2>2
<1>4. /\ \/ portals' = [portals EXCEPT ![i] = portal]
         \/ portals' = [portals EXCEPT ![i] = sent]
      /\ statements' = statements
  BY DEF Execute
<1>5. RepliesInv'
  <2>1. /\ Heard
        /\ Error \/ (replies' = Append(replies, last) /\ UNCHANGED in_failed_pipeline)
    BY DEF Execute, Reply
  <2>2. last \in Answers
    BY DEF Answers
  <2> HIDE DEF last
  <2> QED BY <2>1, <2>2, ErrorInv, ReplyInv DEF IInv
<1> HIDE DEF i, portal, sent
<1>6. PortalsInv'
  BY <1>2, <1>3, <1>4 DEF IInv, PortalsInv, InUse
<1> QED BY <1>4, <1>5, <1>6 DEF IInv, StatementType

(* Every message keeps the invariant.                                      *)
LEMMA NextInv == IInv /\ [Next]_vars => IInv'
<1> SUFFICES ASSUME IInv, [Next]_vars PROVE IInv'
  OBVIOUS
<1>1. CASE UNCHANGED vars
  BY <1>1 DEF vars, IInv, StatementType, PortalsInv, RepliesInv, QuietAfterError
<1>2. CASE \E n \in Names, q \in Queries : Parse(n, q)
  BY <1>2, ParseInv
<1>3. CASE \E p, n \in Names : Bind(p, n)
  BY <1>3, BindInv
<1>4. CASE \E n \in Names : CloseStatement(n) \/ ClosePortal(n) \/ DescribeStatement(n)
  BY <1>4, CloseInv, DescribeStatementInv
<1>5. CASE \E p \in Names, ok \in BOOLEAN : DescribePortal(p, ok)
  BY <1>5, DescribePortalInv
<1>6. CASE \E p \in Names, max_rows \in 0 .. MaxFetch, ok \in BOOLEAN : Execute(p, max_rows, ok)
  BY <1>6, ExecuteInv
<1>7. CASE CloseNothing
  <2>1. replies' = Append(replies, "close complete") /\ Heard /\ UNCHANGED in_failed_pipeline
    BY <1>7 DEF CloseNothing, Reply
  <2>2. RepliesInv'
    BY <2>1, ReplyInv DEF IInv, Answers
  <2> QED BY <1>7, <2>2 DEF CloseNothing, IInv, StatementType, PortalsInv
<1>8. CASE Refuse \/ Unsupported
  BY <1>8, RefuseInv
<1>9. CASE Sync \/ \E q \in Queries, reached \in BOOLEAN : SimpleQuery(q, reached)
  BY <1>9, ReadyInv
<1> QED BY <1>1, <1>2, <1>3, <1>4, <1>5, <1>6, <1>7, <1>8, <1>9 DEF Next

(* The slots and the replies keep their invariant, for any number of slots, *)
(* names, queries and rows.                                                *)
THEOREM Invariance == Spec => []IInv
<1> QED BY InitInv, NextInv, PTL DEF Spec

(* After an ErrorResponse nothing but errors is replied until the server is *)
(* ready again (in_failed_pipeline of pg_connection_thread_proc).          *)
THEOREM ErrorsSilencePipeline == Spec => []QuietAfterError
<1>1. IInv => QuietAfterError
  BY DEF IInv, RepliesInv
<1> QED BY <1>1, Invariance, PTL

(* The query of a portal runs at most once (pg_portal_ensure_executed).    *)
THEOREM PortalsRunOnce == Spec => []RunOnce
<1>1. IInv => RunOnce
  BY DEF IInv, PortalsInv, PortalInv, Portal, RunOnce, Used
<1> QED BY <1>1, Invariance, PTL

(* A portal's rows are sent each once and in order, in pieces of any size   *)
(* (pg_handle_execute).                                                    *)
THEOREM RowsArriveOnce == Spec => []RowsDelivered
<1>1. IInv => RowsDelivered
  BY ZenonT(60) DEF IInv, PortalsInv, PortalInv, Portal, RowsDelivered, Used, FirstRows
<1> QED BY <1>1, Invariance, PTL
-------------------------------------------------------------------------------
(* The slots as a table by name                                            *)

(* What a table of slots keeps: its slots are numbered, and no two slots in *)
(* use have the same name.                                                 *)
Named(table) ==
  /\ DOMAIN table \subseteq Nat
  /\ \A i, j \in InUse(table) : table[i].name = table[j].name => i = j

(* The only slot of a name.                                                *)
LEMMA FoundIs ==
  ASSUME NEW table, Named(table), NEW i \in InUse(table)
  PROVE  Found(table, table[i].name) = {i} /\ Min(Found(table, table[i].name)) = i
<1>1. Found(table, table[i].name) = {i}
  BY DEF Found, Named
<1>2. {i} \subseteq Nat
  BY DEF Named, InUse
<1>3. Min({i}) \in {i}
  BY <1>2, MinOfNats
<1> QED BY <1>1, <1>3

(* The table by name has the text of every slot in use, and nothing else.  *)
LEMMA ByNameIs ==
  ASSUME NEW table, Named(table)
  PROVE  /\ DOMAIN ByName(table) = {table[i].name : i \in InUse(table)}
         /\ \A i \in InUse(table) : ByName(table)[table[i].name] = table[i].sql
         /\ ByName(table) = [n \in DOMAIN ByName(table) |-> ByName(table)[n]]
<1>1. {s.name : s \in Used(table)} = {table[i].name : i \in InUse(table)}
  BY DEF Used
<1>2. ASSUME NEW i \in InUse(table)
      PROVE  ByName(table)[table[i].name] = table[i].sql
  BY <1>1, FoundIs DEF ByName
<1> QED BY <1>1, <1>2 DEF ByName

(* A table with the same texts under the same names is the same by name.   *)
LEMMA SameByName ==
  ASSUME NEW table, Named(table), NEW f, f = [n \in DOMAIN f |-> f[n]],
         DOMAIN f = {table[i].name : i \in InUse(table)},
         \A i \in InUse(table) : f[table[i].name] = table[i].sql
  PROVE  ByName(table) = f
<1>1. DOMAIN ByName(table) = DOMAIN f
  BY ByNameIs
<1>2. ASSUME NEW n \in DOMAIN f PROVE ByName(table)[n] = f[n]
  <2>1. PICK i \in InUse(table) : n = table[i].name
    OBVIOUS
  <2>2. ByName(table)[table[i].name] = table[i].sql
    BY ByNameIs
  <2> QED BY <2>1, <2>2
<1>3. ByName(table) = [n \in DOMAIN ByName(table) |-> ByName(table)[n]]
  BY ByNameIs
<1> DEFINE b == ByName(table)
<1> HIDE DEF b
<1>4. [n \in DOMAIN b |-> b[n]] = [n \in DOMAIN f |-> f[n]]
  BY <1>1, <1>2 DEF b
<1> QED BY <1>3, <1>4 DEF b

(* Freeing a name takes it off the table.                                  *)
LEMMA FreedNames ==
  ASSUME NEW table, Named(table), NEW n
  PROVE  /\ Named(Freed(table, n))
         /\ DOMAIN Freed(table, n) = DOMAIN table
         /\ InUse(Freed(table, n)) = InUse(table) \ Found(table, n)
         /\ \A i \in InUse(Freed(table, n)) : Freed(table, n)[i] = table[i]
<1>1. CASE Found(table, n) = {}
  BY <1>1 DEF Freed
<1>2. CASE Found(table, n) # {}
  <2>1. PICK k \in Found(table, n) : TRUE
    BY <1>2
  <2>2. k \in InUse(table) /\ table[k].name = n
    BY <2>1 DEF Found
  <2>3. Found(table, n) = {k} /\ Min(Found(table, n)) = k
    BY <2>2, FoundIs
  <2>4. Freed(table, n) = [table EXCEPT ![k] = NoSlot]
    BY <1>2, <2>3 DEF Freed
  <2> QED BY <2>2, <2>3, <2>4 DEF Named, InUse
<1> QED BY <1>1, <1>2

LEMMA FreedByName ==
  ASSUME NEW table, Named(table), NEW n
  PROVE  ByName(Freed(table, n)) = Abstract!Without(ByName(table), n)
<1> DEFINE freed == Freed(table, n)
           after == Abstract!Without(ByName(table), n)
<1>1. /\ Named(freed) /\ InUse(freed) = InUse(table) \ Found(table, n)
      /\ \A i \in InUse(freed) : freed[i] = table[i]
  BY FreedNames
<1>2. /\ DOMAIN ByName(table) = {table[i].name : i \in InUse(table)}
      /\ \A i \in InUse(table) : ByName(table)[table[i].name] = table[i].sql
  BY ByNameIs
<1>3. after = [m \in DOMAIN ByName(table) \ {n} |-> ByName(table)[m]]
  BY DEF Abstract!Without, Abstract!Restrict
<1> HIDE DEF freed, after
<1>4. /\ DOMAIN after = DOMAIN ByName(table) \ {n}
      /\ \A m \in DOMAIN after : after[m] = ByName(table)[m]
      /\ after = [m \in DOMAIN after |-> after[m]]
  BY <1>3
<1>5. \A i \in InUse(table) : i \in InUse(freed) <=> table[i].name # n
  BY <1>1 DEF Found
<1>6. DOMAIN after = {freed[i].name : i \in InUse(freed)}
  BY <1>1, <1>2, <1>4, <1>5
<1>7. \A i \in InUse(freed) : after[freed[i].name] = freed[i].sql
  BY <1>1, <1>2, <1>4, <1>6
<1>8. ByName(freed) = after
  BY <1>1, <1>4, <1>6, <1>7, SameByName
<1> QED BY <1>8 DEF freed, after

(* Taking a slot puts its text under its name, whatever was there.         *)
LEMMA AllocNames ==
  ASSUME NEW table, Named(table), NEW slot, slot # NoSlot, CanAlloc(table, slot.name)
  PROVE  /\ Named(Alloc(table, slot))
         /\ ByName(Alloc(table, slot)) = Abstract!With(ByName(table), slot.name, slot.sql)
<1> DEFINE n     == slot.name
           freed == Freed(table, n)
           k     == Min(Free(freed))
           taken == Alloc(table, slot)
           after == Abstract!With(ByName(table), n, slot.sql)
<1>1. /\ Named(freed) /\ DOMAIN freed = DOMAIN table
      /\ InUse(freed) = InUse(table) \ Found(table, n)
      /\ \A i \in InUse(freed) : freed[i] = table[i]
  BY FreedNames
<1>2. k \in DOMAIN freed /\ k \notin InUse(freed)
  <2>1. Free(freed) \subseteq Nat /\ Free(freed) # {}
    BY <1>1 DEF Free, Named, CanAlloc
  <2>2. k \in Free(freed)
    BY <2>1, MinOfNats
  <2> QED BY <2>2 DEF Free
<1>3. taken = [freed EXCEPT ![k] = slot]
  BY DEF Alloc
<1>4. /\ DOMAIN ByName(table) = {table[i].name : i \in InUse(table)}
      /\ \A i \in InUse(table) : ByName(table)[table[i].name] = table[i].sql
  BY ByNameIs
<1> HIDE DEF k, freed, taken
<1>5. /\ DOMAIN taken = DOMAIN freed
      /\ InUse(taken) = InUse(freed) \cup {k}
      /\ taken[k] = slot /\ \A i \in InUse(freed) : taken[i] = table[i]
  BY <1>1, <1>2, <1>3 DEF InUse
<1>6. \A i \in InUse(freed) : i \in InUse(table) /\ table[i].name # n
  BY <1>1 DEF Found
<1>7. Named(taken)
  BY <1>1, <1>5, <1>6 DEF Named
<1>8. after = [m \in DOMAIN ByName(table) \cup {n} |->
                 IF m = n THEN slot.sql ELSE ByName(table)[m]]
  BY DEF Abstract!With
<1> HIDE DEF after
<1>9. /\ DOMAIN after = DOMAIN ByName(table) \cup {n}
      /\ \A m \in DOMAIN after : after[m] = IF m = n THEN slot.sql ELSE ByName(table)[m]
      /\ after = [m \in DOMAIN after |-> after[m]]
  BY <1>8
<1>10. DOMAIN after = {taken[i].name : i \in InUse(taken)}
  <2>1. \A i \in InUse(table) : table[i].name # n => i \in InUse(freed)
    BY <1>1 DEF Found
  <2>2. \A m \in DOMAIN after : \E i \in InUse(taken) : m = taken[i].name
    BY <1>4, <1>5, <1>9, <2>1
  <2>3. \A i \in InUse(taken) : taken[i].name \in DOMAIN after
    BY <1>4, <1>5, <1>6, <1>9
  <2> QED BY <2>2, <2>3
<1>11. \A i \in InUse(taken) : after[taken[i].name] = taken[i].sql
  BY <1>4, <1>5, <1>6, <1>9
<1>12. ByName(taken) = after
  BY <1>7, <1>9, <1>10, <1>11, SameByName
<1> QED BY <1>7, <1>12 DEF taken, after

(* A slot can be taken only where the table by name has room.              *)
LEMMA AllocFits ==
  ASSUME NEW table, Named(table), NEW n, NEW max \in Nat, DOMAIN table = 1 .. max,
         CanAlloc(table, n)
  PROVE  Abstract!Fits(ByName(table), n, max)
<1> DEFINE names == DOMAIN ByName(table)
<1>0. Abstract!Cardinality(names) = Cardinality(names)
  BY DEF Abstract!Cardinality, Cardinality
<1> SUFFICES ASSUME n \notin names PROVE Cardinality(names) < max
  BY <1>0 DEF Abstract!Fits
<1>1. names = {table[i].name : i \in InUse(table)}
  BY ByNameIs
<1>2. Found(table, n) = {}
  BY <1>1 DEF Found
<1>3. Free(table) # {}
  BY <1>2 DEF CanAlloc, Freed
<1> PICK k \in 1 .. max : k \notin InUse(table)
  BY <1>3 DEF Free
<1>4. IsFiniteSet(1 .. max) /\ Cardinality(1 .. max) = max
  BY FS_Interval
<1>5. InUse(table) \subseteq (1 .. max) \ {k}
  BY DEF InUse
<1>6. /\ IsFiniteSet((1 .. max) \ {k}) /\ Cardinality((1 .. max) \ {k}) = max - 1
  BY <1>4, FS_RemoveElement
<1>7. IsFiniteSet(InUse(table)) /\ Cardinality(InUse(table)) <= max - 1
  BY <1>5, <1>6, FS_Subset
<1> DEFINE f == [i \in InUse(table) |-> table[i].name]
<1>8. f \in Surjection(InUse(table), names)
  BY <1>1 DEF Surjection
<1>9. Cardinality(names) <= Cardinality(InUse(table)) /\ IsFiniteSet(names)
  BY <1>7, <1>8, FS_Surjection
<1>10. Cardinality(names) \in Nat /\ Cardinality(InUse(table)) \in Nat
  BY <1>7, <1>9, FS_CardinalityType
<1> QED BY <1>7, <1>9, <1>10

(* A slot whose name and text stay changes nothing by name.                *)
LEMMA UpdateNames ==
  ASSUME NEW table, Named(table), NEW i \in InUse(table), NEW slot, slot # NoSlot,
         slot.name = table[i].name, slot.sql = table[i].sql
  PROVE  LET updated == [table EXCEPT ![i] = slot]
         IN  Named(updated) /\ ByName(updated) = ByName(table)
<1> DEFINE updated == [table EXCEPT ![i] = slot]
<1>1. /\ DOMAIN updated = DOMAIN table /\ InUse(updated) = InUse(table)
      /\ \A j \in InUse(table) : updated[j].name = table[j].name /\ updated[j].sql = table[j].sql
  BY DEF InUse
<1> HIDE DEF updated
<1>2. Named(updated)
  BY <1>1 DEF Named
<1>3. /\ DOMAIN ByName(table) = {table[j].name : j \in InUse(table)}
      /\ \A j \in InUse(table) : ByName(table)[table[j].name] = table[j].sql
      /\ ByName(table) = [n \in DOMAIN ByName(table) |-> ByName(table)[n]]
  BY ByNameIs
<1> DEFINE f == ByName(table)
<1> HIDE DEF f
<1>4. DOMAIN f = {updated[j].name : j \in InUse(updated)}
  BY <1>1, <1>3 DEF f
<1>5. \A j \in InUse(updated) : f[updated[j].name] = updated[j].sql
  BY <1>1, <1>3 DEF f
<1>6. f = [n \in DOMAIN f |-> f[n]]
  BY <1>3 DEF f
<1>7. ByName(updated) = f
  BY <1>2, <1>4, <1>5, <1>6, SameByName
<1> QED BY <1>2, <1>7 DEF updated, f

-------------------------------------------------------------------------------
(* The messages, by name                                                   *)

NamesInv ==
  /\ Named(statements) /\ Named(portals)
  /\ Used(statements) \subseteq Statement
  /\ shape_writes \in BOOLEAN
  /\ current_database \in {q.use : q \in Queries} \cup {NoUse}

(* A portal that runs keeps its name and its text, and so does one that is  *)
(* sent rows.                                                              *)
LEMMA PortalsKeepText ==
  ASSUME NEW p \in Portal, NEW ok \in BOOLEAN
  PROVE  Executed(p, ok).name = p.name /\ Executed(p, ok).sql = p.sql
BY DEF Executed, Portal

LEMMA FetchesKeepText ==
  ASSUME NEW p \in Portal, NEW max_rows, NEW last
  PROVE  LET f == [Fetched(p, max_rows) EXCEPT !.last = last]
         IN  f.name = p.name /\ f.sql = p.sql
<1> DEFINE f == Fetched(p, max_rows)
           sent == p.rows_sent + ToSend(p, max_rows)
           rows == p.delivered \o [j \in 1 .. ToSend(p, max_rows) |-> p.rows_sent + j]
<1>1. f = [p EXCEPT !.rows_sent = sent, !.delivered = rows]
  BY DEF Fetched
<1> HIDE DEF sent, rows
<1>2. f = [k \in DOMAIN p |-> IF k = "delivered" THEN rows
                              ELSE IF k = "rows_sent" THEN sent ELSE p[k]]
  BY <1>1
<1>3. DOMAIN p = {"name", "sql", "executed", "had_error", "rows", "rows_sent", "delivered",
                  "runs", "last"}
  BY DEF Portal
<1> HIDE DEF f
<1>4. /\ f.name = p.name /\ f.sql = p.sql
      /\ DOMAIN f = DOMAIN p
  BY <1>2, <1>3
<1> QED BY <1>3, <1>4 DEF f

LEMMA InitNames == Init => NamesInv /\ Abstract!Init
<1> SUFFICES ASSUME Init PROVE NamesInv /\ Abstract!Init
  OBVIOUS
<1>1. InUse(statements) = {} /\ InUse(portals) = {}
  BY DEF Init, InUse
<1>2. DOMAIN statements \subseteq Nat /\ DOMAIN portals \subseteq Nat
  BY PgSessionAssumption DEF Init
<1>3. NamesInv
  BY <1>1, <1>2 DEF Init, NamesInv, Named, Used
<1>4. ByName(statements) = Abstract!Empty /\ ByName(portals) = Abstract!Empty
  BY <1>1 DEF ByName, Used, Abstract!Empty
<1> QED BY <1>3, <1>4 DEF Init, Abstract!Init

LEMMA ParseNames ==
  ASSUME IInv, NamesInv, NEW n \in Names, NEW q \in Queries, Parse(n, q)
  PROVE  NamesInv' /\ Abstract!Prepare(n, q)
<1> DEFINE slot == [name |-> n, sql |-> q]
<1>1. /\ CanAlloc(statements, n) /\ statements' = Alloc(statements, slot)
      /\ UNCHANGED <<portals, in_failed_pipeline, current_database, shape_writes>>
      /\ acked' = <<"parse", n, q>> /\ in_failed_pipeline = FALSE
  BY DEF Parse, Reply, Heard, IInv, RepliesInv
<1>2. slot \in Statement /\ slot.name = n /\ slot.sql = q
  BY DEF Statement
<1>3. slot # NoSlot
  BY <1>2, PgSessionAssumption
<1> HIDE DEF slot
<1>4. Named(statements)
  BY DEF NamesInv
<1>5. /\ Named(statements')
      /\ ByName(statements') = Abstract!With(ByName(statements), n, q)
  BY <1>1, <1>2, <1>3, <1>4, AllocNames
<1>6. Used(statements') \subseteq Statement
  <2>1. \A i \in InUse(statements') :
          \/ statements'[i] = slot
          \/ i \in InUse(statements) /\ statements'[i] = statements[i]
    BY <1>1, AllocKeeps
  <2> QED BY <1>2, <2>1 DEF NamesInv, Used
<1>7. Abstract!Fits(ByName(statements), n, MaxStatements)
  BY <1>1, <1>4, AllocFits, PgSessionAssumption DEF IInv, StatementType
<1>8. NamesInv'
  BY <1>1, <1>5, <1>6 DEF NamesInv
<1>9. Abstract!Prepare(n, q)
  BY <1>1, <1>5, <1>7 DEF Abstract!Prepare
<1> QED BY <1>8, <1>9

LEMMA BindNames ==
  ASSUME IInv, NamesInv, NEW p \in Names, NEW n \in Names, Bind(p, n)
  PROVE  NamesInv' /\ Abstract!Bind(p, n)
<1> DEFINE i    == Min(Found(statements, n))
           q    == statements[i].sql
           slot == NewPortal(p, q)
<1>1. /\ CanAlloc(portals, p) /\ portals' = Alloc(portals, slot)
      /\ Found(statements, n) # {}
      /\ UNCHANGED <<statements, in_failed_pipeline, current_database, shape_writes>>
      /\ acked' = <<"bind", p, n>> /\ in_failed_pipeline = FALSE
  BY DEF Bind, Reply, Heard, IInv, RepliesInv
<1>2. i \in InUse(statements) /\ statements[i].name = n
  <2>1. Found(statements, n) \subseteq Nat
    BY DEF IInv, StatementType, Found, InUse
  <2>2. i \in Found(statements, n)
    BY <1>1, <2>1, MinOfNats
  <2> QED BY <2>2 DEF Found
<1>3. q \in Queries
  BY <1>2 DEF IInv, StatementType
<1> HIDE DEF i
<1>4. n \in DOMAIN ByName(statements) /\ ByName(statements)[n] = q
  <2>1. /\ DOMAIN ByName(statements) = {statements[j].name : j \in InUse(statements)}
        /\ \A j \in InUse(statements) : ByName(statements)[statements[j].name] = statements[j].sql
    BY ByNameIs DEF NamesInv
  <2> QED BY <1>2, <2>1
<1> HIDE DEF q
<1>5. slot \in Portal /\ slot.name = p /\ slot.sql = q
  BY <1>3 DEF Portal, NewPortal
<1>6. slot # NoSlot
  BY <1>5, PgSessionAssumption
<1> HIDE DEF slot
<1>7. Named(portals)
  BY DEF NamesInv
<1>8. /\ Named(portals')
      /\ ByName(portals') = Abstract!With(ByName(portals), p, q)
  BY <1>1, <1>5, <1>6, <1>7, AllocNames
<1>9. Abstract!Fits(ByName(portals), p, MaxPortals)
  BY <1>1, <1>7, AllocFits, PgSessionAssumption DEF IInv, PortalsInv
<1>10. NamesInv'
  BY <1>1, <1>8 DEF NamesInv
<1>11. Abstract!Bind(p, n)
  BY <1>1, <1>4, <1>8, <1>9 DEF Abstract!Bind
<1> QED BY <1>10, <1>11

LEMMA CloseStatementNames ==
  ASSUME IInv, NamesInv, NEW n \in Names, CloseStatement(n)
  PROVE  NamesInv' /\ Abstract!CloseStatement(n)
<1>1. /\ statements' = Freed(statements, n)
      /\ UNCHANGED <<portals, in_failed_pipeline, current_database, shape_writes>>
      /\ acked' = <<"close statement", n>> /\ in_failed_pipeline = FALSE
  BY Zenon DEF CloseStatement, Reply, Heard, IInv, RepliesInv
<1>2. /\ UNCHANGED <<portals, in_failed_pipeline, current_database, shape_writes>>
      /\ statements' = Freed(statements, n)
  BY <1>1
<1>3. Named(statements)
  BY DEF NamesInv
<1>4. Named(statements') /\ ByName(statements') = Abstract!Without(ByName(statements), n)
  BY <1>2, <1>3, FreedNames, FreedByName
<1>5. Used(statements') \subseteq Statement
  BY <1>2, <1>3, FreedNames DEF NamesInv, Used
<1>6. NamesInv'
  BY <1>2, <1>4, <1>5 DEF NamesInv
<1>7. Abstract!CloseStatement(n)
  BY <1>1, <1>4, Zenon DEF Abstract!CloseStatement
<1> QED BY <1>6, <1>7

LEMMA ClosePortalNames ==
  ASSUME IInv, NamesInv, NEW n \in Names, ClosePortal(n)
  PROVE  NamesInv' /\ Abstract!ClosePortal(n)
<1>1. /\ portals' = Freed(portals, n)
      /\ UNCHANGED <<statements, in_failed_pipeline, current_database, shape_writes>>
      /\ acked' = <<"close portal", n>> /\ in_failed_pipeline = FALSE
  BY Zenon DEF ClosePortal, Reply, Heard, IInv, RepliesInv
<1>2. /\ UNCHANGED <<statements, in_failed_pipeline, current_database, shape_writes>>
      /\ portals' = Freed(portals, n)
  BY <1>1
<1>3. Named(portals)
  BY DEF NamesInv
<1>4. Named(portals') /\ ByName(portals') = Abstract!Without(ByName(portals), n)
  BY <1>2, <1>3, FreedNames, FreedByName
<1>5. NamesInv'
  BY <1>2, <1>4 DEF NamesInv
<1>6. Abstract!ClosePortal(n)
  BY <1>1, <1>4, Zenon DEF Abstract!ClosePortal
<1> QED BY <1>5, <1>6

(* An error keeps both tables.                                             *)
LEMMA ErrorNames ==
  ASSUME NamesInv, Error, UNCHANGED <<statements, shape_writes>>,
         Named(portals'), ByName(portals') = ByName(portals),
         current_database' \in {q.use : q \in Queries} \cup {NoUse}
  PROVE  NamesInv' /\ Abstract!Fail
<1>1. in_failed_pipeline' = TRUE /\ acked' = <<"error">>
  BY DEF Error, Reply
<1> QED BY <1>1 DEF NamesInv, Abstract!Fail

(* A reply that acknowledges nothing in particular keeps both tables.      *)
LEMMA ReplyNames ==
  ASSUME NamesInv, IInv, Heard, NEW r, Reply(r, <<>>),
         UNCHANGED <<statements, in_failed_pipeline>>, shape_writes' \in BOOLEAN,
         Named(portals'), ByName(portals') = ByName(portals),
         current_database' \in {q.use : q \in Queries} \cup {NoUse}
  PROVE  NamesInv' /\ Abstract!Use
<1>1. in_failed_pipeline = FALSE /\ acked' = <<>>
  BY Zenon DEF Reply, Heard, IInv, RepliesInv
<1> QED BY <1>1 DEF NamesInv, Abstract!Use

LEMMA RefuseNames ==
  ASSUME NamesInv, Refuse \/ Unsupported
  PROVE  NamesInv' /\ Abstract!Fail
BY ErrorNames DEF Refuse, Unsupported, NamesInv

LEMMA CloseNothingNames ==
  ASSUME IInv, NamesInv, CloseNothing
  PROVE  NamesInv' /\ Abstract!Use
<1>1. /\ Heard /\ Reply("close complete", <<>>)
      /\ UNCHANGED <<statements, portals, in_failed_pipeline, current_database, shape_writes>>
  BY DEF CloseNothing
<1>2. /\ UNCHANGED <<statements, in_failed_pipeline>> /\ shape_writes' \in BOOLEAN
      /\ Named(portals') /\ ByName(portals') = ByName(portals)
      /\ current_database' \in {q.use : q \in Queries} \cup {NoUse}
  BY <1>1, Zenon DEF NamesInv
<1> QED BY <1>1, <1>2, ReplyNames, Zenon

LEMMA DescribeStatementNames ==
  ASSUME IInv, NamesInv, NEW n \in Names, DescribeStatement(n)
  PROVE  NamesInv' /\ Abstract!Use
<1> DEFINE i == Min(Found(statements, n))
           q == statements[i].sql
<1>1. /\ Heard /\ Reply("description", <<>>)
      /\ UNCHANGED <<statements, portals, in_failed_pipeline, current_database>>
      /\ shape_writes' = (shape_writes \/ (q.select /\ q.writes))
      /\ Found(statements, n) # {}
  BY DEF DescribeStatement
<1>2. i \in InUse(statements)
  BY <1>1, FoundInUse, SMTT(60) DEF IInv, StatementType
<1>3. q \in Queries
  BY <1>2, Zenon DEF IInv, StatementType
<1> HIDE DEF q
<1>6. q.select \in BOOLEAN /\ q.writes \in BOOLEAN
  BY <1>3, PgSessionAssumption
<1>4. shape_writes' \in BOOLEAN
  BY <1>1, Zenon
<1>5. /\ Named(portals') /\ ByName(portals') = ByName(portals)
      /\ current_database' \in {qq.use : qq \in Queries} \cup {NoUse}
  BY <1>1, Zenon DEF NamesInv
<1> QED BY <1>1, <1>4, <1>5, ReplyNames, Zenon

(* A portal that is found in its slot is one of the table.                 *)
LEMMA FoundPortal ==
  ASSUME IInv, NamesInv, NEW p, Found(portals, p) # {}
  PROVE  LET i == Min(Found(portals, p))
         IN  i \in InUse(portals) /\ portals[i] \in Portal
<1>1. Min(Found(portals, p)) \in InUse(portals)
  <2>1. DOMAIN portals \subseteq Nat
    BY DEF NamesInv, Named
  <2> QED BY <2>1, FoundInUse
<1> QED BY <1>1 DEF IInv, PortalsInv, PortalInv

(* A run switches the database to that of a query, or not at all.          *)
LEMMA DatabaseIs ==
  ASSUME NamesInv, NEW p \in Portal, NEW ok \in BOOLEAN
  PROVE  DatabaseAfter(p, ok) \in {q.use : q \in Queries} \cup {NoUse}
BY DEF DatabaseAfter, NamesInv, Portal

(* Putting a portal of the same name and text into its slot keeps the table. *)
LEMMA PortalReplaced ==
  ASSUME NamesInv, NEW i \in InUse(portals), NEW portal \in Portal,
         portal.name = portals[i].name, portal.sql = portals[i].sql,
         portals' = [portals EXCEPT ![i] = portal]
  PROVE  Named(portals') /\ ByName(portals') = ByName(portals)
<1>1. portal # NoSlot
  BY PgSessionAssumption
<1>2. Named(portals)
  BY DEF NamesInv
<1> QED BY <1>1, <1>2, UpdateNames

LEMMA DescribePortalNames ==
  ASSUME IInv, NamesInv, NEW p \in Names, NEW ok \in BOOLEAN, DescribePortal(p, ok)
  PROVE  NamesInv' /\ (Abstract!Use \/ Abstract!Fail)
<1> DEFINE i      == Min(Found(portals, p))
           portal == IF portals[i].sql.select THEN Executed(portals[i], ok) ELSE portals[i]
<1>1. /\ Heard /\ Found(portals, p) # {}
      /\ portals' = [portals EXCEPT ![i] = portal]
      /\ current_database' \in {DatabaseAfter(portals[i], ok), current_database}
      /\ \/ Error
         \/ Reply("description", <<>>) /\ UNCHANGED in_failed_pipeline
      /\ UNCHANGED <<statements, shape_writes>>
  BY DEF DescribePortal
<1>2. i \in InUse(portals) /\ portals[i] \in Portal
  BY <1>1, FoundPortal
<1>3. portal \in Portal
  BY <1>2, ExecutedInv DEF IInv, PortalsInv, PortalInv
<1>4. portal.name = portals[i].name /\ portal.sql = portals[i].sql
  BY <1>2, PortalsKeepText
<1>5. current_database' \in {q.use : q \in Queries} \cup {NoUse}
  BY <1>1, <1>2, DatabaseIs DEF NamesInv
<1> HIDE DEF i, portal
<1>6. Named(portals') /\ ByName(portals') = ByName(portals)
  BY <1>1, <1>2, <1>3, <1>4, PortalReplaced
<1>7. CASE Error
  BY <1>1, <1>5, <1>6, <1>7, ErrorNames
<1>8. CASE Reply("description", <<>>) /\ UNCHANGED in_failed_pipeline
  <2>1. UNCHANGED <<statements, in_failed_pipeline>> /\ shape_writes' \in BOOLEAN
    BY <1>1, <1>8 DEF NamesInv
  <2> QED BY <1>1, <1>5, <1>6, <1>8, <2>1, ReplyNames
<1> QED BY <1>1, <1>7, <1>8

LEMMA ExecuteNames ==
  ASSUME IInv, NamesInv, NEW p \in Names, NEW max_rows \in 0 .. MaxFetch, NEW ok \in BOOLEAN,
         Execute(p, max_rows, ok)
  PROVE  NamesInv' /\ (Abstract!Use \/ Abstract!Fail)
<1> DEFINE i       == Min(Found(portals, p))
           portal  == Executed(portals[i], ok)
           fetched == Fetched(portal, max_rows)
           last    == IF portal.rows # NoRows /\ Suspends(fetched, max_rows)
                      THEN "suspended" ELSE "complete"
           sent    == [(IF portal.rows = NoRows THEN portal ELSE fetched) EXCEPT !.last = last]
<1>1. /\ Heard /\ Found(portals, p) # {}
      /\ current_database' = DatabaseAfter(portals[i], ok)
      /\ \/ portals' = [portals EXCEPT ![i] = portal] /\ Error
         \/ /\ portals' = [portals EXCEPT ![i] = sent]
            /\ Reply(last, <<>>) /\ UNCHANGED in_failed_pipeline
      /\ UNCHANGED <<statements, shape_writes>>
  BY DEF Execute
<1>2. i \in InUse(portals) /\ portals[i] \in Portal /\ PortalInv(portals[i])
  BY <1>1, FoundPortal DEF IInv, PortalsInv
<1>3. PortalInv(portal) /\ portal.executed
  BY <1>2, ExecutedInv
<1>4. portal \in Portal /\ portal.name = portals[i].name /\ portal.sql = portals[i].sql
  BY <1>2, <1>3, PortalsKeepText DEF PortalInv
<1>5. max_rows \in Nat
  BY PgSessionAssumption
<1>6. current_database' \in {q.use : q \in Queries} \cup {NoUse}
  BY <1>1, <1>2, DatabaseIs
<1> HIDE DEF i, portal
<1>7. sent \in Portal /\ sent.name = portal.name /\ sent.sql = portal.sql
  <2>1. CASE portal.rows = NoRows
    <3>1. sent = [portal EXCEPT !.last = "complete"]
      BY <2>1
    <3> QED BY <1>4, <3>1 DEF Portal
  <2>2. CASE portal.rows # NoRows
    <3>1. sent = [Fetched(portal, max_rows) EXCEPT
                    !.last = IF Suspends(fetched, max_rows) THEN "suspended" ELSE "complete"]
      BY <2>2
    <3>2. sent \in Portal
      BY <1>3, <1>5, <2>2, <3>1, FetchedInv DEF PortalInv
    <3> QED BY <1>4, <3>1, <3>2, FetchesKeepText
  <2> QED BY <2>1, <2>2
<1> HIDE DEF sent, last
<1>8. CASE portals' = [portals EXCEPT ![i] = portal] /\ Error
  <2>1. Named(portals') /\ ByName(portals') = ByName(portals)
    BY <1>2, <1>4, <1>8, PortalReplaced
  <2> QED BY <1>1, <1>6, <1>8, <2>1, ErrorNames
<1>9. CASE /\ portals' = [portals EXCEPT ![i] = sent]
           /\ Reply(last, <<>>) /\ UNCHANGED in_failed_pipeline
  <2>1. sent.name = portals[i].name /\ sent.sql = portals[i].sql
    BY <1>4, <1>7
  <2>2. Named(portals') /\ ByName(portals') = ByName(portals)
    BY <1>2, <1>7, <1>9, <2>1, PortalReplaced
  <2>3. UNCHANGED <<statements, in_failed_pipeline>> /\ shape_writes' \in BOOLEAN
    BY <1>1, <1>9 DEF NamesInv
  <2> QED BY <1>1, <1>6, <1>9, <2>2, <2>3, ReplyNames
<1> QED BY <1>1, <1>8, <1>9

LEMMA ReadyNames ==
  ASSUME NamesInv, Sync \/ \E q \in Queries, reached \in BOOLEAN : SimpleQuery(q, reached)
  PROVE  NamesInv' /\ Abstract!Resync
<1>1. /\ in_failed_pipeline' = FALSE /\ acked' = <<"ready">>
      /\ UNCHANGED <<statements, portals, shape_writes>>
      /\ current_database' \in {q.use : q \in Queries} \cup {NoUse}
  BY DEF Sync, SimpleQuery, Ready, NamesInv
<1> QED BY <1>1 DEF NamesInv, Abstract!Resync

(* Every message keeps the tables' invariant, and does by name what the     *)
(* abstract connection does.                                               *)
LEMMA NextNames ==
  IInv /\ NamesInv /\ [Next]_vars => NamesInv' /\ [Abstract!Next]_Abstract!vars
<1> SUFFICES ASSUME IInv, NamesInv, [Next]_vars
             PROVE  NamesInv' /\ [Abstract!Next]_Abstract!vars
  OBVIOUS
<1>1. CASE UNCHANGED vars
  BY <1>1 DEF vars, NamesInv, Abstract!vars
<1>2. CASE \E n \in Names, q \in Queries : Parse(n, q)
  BY <1>2, ParseNames, Zenon DEF Abstract!Next
<1>3. CASE \E p, n \in Names : Bind(p, n)
  BY <1>3, BindNames, Zenon DEF Abstract!Next
<1>4. CASE \E n \in Names : CloseStatement(n) \/ ClosePortal(n) \/ DescribeStatement(n)
  BY <1>4, CloseStatementNames, ClosePortalNames, DescribeStatementNames, Zenon
     DEF Abstract!Next
<1>5. CASE \E p \in Names, ok \in BOOLEAN : DescribePortal(p, ok)
  BY <1>5, DescribePortalNames, Zenon DEF Abstract!Next
<1>6. CASE \E p \in Names, max_rows \in 0 .. MaxFetch, ok \in BOOLEAN : Execute(p, max_rows, ok)
  BY <1>6, ExecuteNames, Zenon DEF Abstract!Next
<1>7. CASE CloseNothing
  BY <1>7, CloseNothingNames, Zenon DEF Abstract!Next
<1>8. CASE Refuse \/ Unsupported
  BY <1>8, RefuseNames, Zenon DEF Abstract!Next
<1>9. CASE Sync \/ \E q \in Queries, reached \in BOOLEAN : SimpleQuery(q, reached)
  BY <1>9, ReadyNames, Zenon DEF Abstract!Next
<1> QED BY <1>1, <1>2, <1>3, <1>4, <1>5, <1>6, <1>7, <1>8, <1>9 DEF Next

(* Slots hold statements and portals, and no name is in two slots.         *)
THEOREM TypeCorrect == Spec => []TypeOK
<1>1. ASSUME IInv, NamesInv PROVE TypeOK
  <2>1. ASSUME NEW table \in {statements, portals}, NEW n
        PROVE  Cardinality(Found(table, n)) <= 1
    <3>1. Named(table)
      BY <1>1 DEF NamesInv
    <3>2. CASE Found(table, n) = {}
      BY <3>2, FS_EmptySet
    <3>3. CASE Found(table, n) # {}
      <4>1. PICK i \in InUse(table) : table[i].name = n
        BY <3>3 DEF Found
      <4>2. Found(table, n) = {i}
        BY <3>1, <4>1, FoundIs
      <4> QED BY <4>2, FS_Singleton
    <3> QED BY <3>2, <3>3
  <2>2. Used(portals) \subseteq Portal
    BY <1>1 DEF IInv, PortalsInv, PortalInv, Used
  <2> QED BY <1>1, <2>1, <2>2 DEF TypeOK, IInv, StatementType, PortalsInv, RepliesInv, NamesInv
<1>2. Spec => []NamesInv
  BY InitNames, NextNames, Invariance, PTL DEF Spec
<1> QED BY <1>1, <1>2, Invariance, PTL

(* By name, the slots are the statements and portals of the abstract        *)
(* connection: however slots are found, freed and taken, a client can tell  *)
(* them from two tables by name in nothing.                                *)
THEOREM ConnectionImplements == Spec => ImplementsNames
<1>1. Init => Abstract!Init
  BY InitNames
<1>2. Spec => []NamesInv
  BY InitNames, NextNames, Invariance, PTL DEF Spec
<1>3. IInv /\ NamesInv /\ [Next]_vars => [Abstract!Next]_Abstract!vars
  BY NextNames
<1> QED BY <1>1, <1>2, <1>3, Invariance, PTL DEF Spec, ImplementsNames, Abstract!Spec

-------------------------------------------------------------------------------
(* The server's connections and the error count they share.                *)

(* The types without the bound on errors.                                  *)
CountsType ==
  /\ pc \in [Connections -> {"idle", "received", "rejecting", "counted", "running",
                             "ran", "good", "bad", "closed"}]
  /\ log_lock \in Connections \cup {None}
  /\ mutex \in Connections \cup {None}
  /\ error_count \in Nat
  /\ before \in [Connections -> Nat]
  /\ own_errors \in [Connections -> Nat]
  /\ other_errors \in [Connections -> Nat]
  /\ parse_error \in [Connections -> BOOLEAN]

(* Only a thread that may log holds the log's lock, and one that rejects a  *)
(* request logs a single error.                                            *)
LoggerInv ==
  \A c \in Connections :
    log_lock = c => MayLog(c) /\ (pc[c] = "rejecting" => own_errors[c] = 0)

(* The mutex belongs to the thread that runs a query.                      *)
MutexInv == \A c \in Connections : pc[c] = "running" <=> mutex = c

FreshInv == \A c \in Connections : pc[c] \in {"received", "counted"} => own_errors[c] = 0

(* What the error count has grown by since it was read.                    *)
GrowthInv ==
  \A c \in Connections : pc[c] \in {"counted", "running", "ran"} =>
    error_count = before[c] + own_errors[c] + other_errors[c]

RejectedInv == \A c \in Connections : pc[c] = "ran" /\ parse_error[c] => own_errors[c] > 0

ServerInv ==
  /\ CountsType
  /\ LoggerInv
  /\ MutexInv
  /\ FreshInv
  /\ GrowthInv
  /\ RejectedInv
  /\ FailureReported
  /\ ErrorHasCause

LEMMA ServerInitInv == ServerInit => ServerInv
BY ServerAssumption
   DEF ServerInit, ServerInv, CountsType, LoggerInv, MutexInv, FreshInv, GrowthInv, RejectedInv,
       FailureReported, ErrorHasCause, MayLog

-------------------------------------------------------------------------------
(* The log                                                                 *)

LEMMA LogTextInv == ASSUME ServerInv, NEW c \in Connections, LogText(c) PROVE ServerInv'
BY ServerAssumption
   DEF LogText, ServerInv, CountsType, LoggerInv, MutexInv, FreshInv, GrowthInv, RejectedInv,
       FailureReported, ErrorHasCause, MayLog

LEMMA LogCountInv == ASSUME ServerInv, NEW c \in Connections, LogCount(c) PROVE ServerInv'
<1> USE ServerAssumption
<1>1. CountsType'
  BY DEF ServerInv, CountsType, LogCount
<1>2. /\ pc' = pc /\ before' = before /\ mutex' = mutex /\ parse_error' = parse_error
      /\ log_lock' = None
      /\ error_count' = error_count + 1
      /\ own_errors'[c] = own_errors[c] + 1
      /\ other_errors'[c] = other_errors[c]
      /\ \A d \in Connections \ {c} : /\ own_errors'[d] = own_errors[d]
                                       /\ other_errors'[d] = other_errors[d] + 1
  BY DEF ServerInv, CountsType, LogCount
<1>3. pc[c] \in {"running", "rejecting"}
  BY DEF ServerInv, LoggerInv, LogCount, MayLog
<1>4. LoggerInv' /\ MutexInv' /\ FreshInv'
  BY <1>2, <1>3 DEF ServerInv, LoggerInv, MutexInv, FreshInv
<1>5. GrowthInv'
  BY <1>2 DEF ServerInv, CountsType, GrowthInv
<1>6. RejectedInv'
  BY <1>2 DEF ServerInv, CountsType, RejectedInv
<1>7. FailureReported'
  BY <1>2, <1>3 DEF ServerInv, FailureReported
<1>8. ErrorHasCause'
  BY <1>2 DEF ServerInv, CountsType, ErrorHasCause
<1> QED BY <1>1, <1>4, <1>5, <1>6, <1>7, <1>8 DEF ServerInv

-------------------------------------------------------------------------------
(* A connection's own steps: each moves one thread, from one place to       *)
(* another.                                                                *)

LEMMA ArrivalInv ==
  ASSUME ServerInv, NEW c \in Connections,
         Accept(c) \/ Receive(c) \/ BadLength(c) \/ Reject(c) \/ Disconnect(c)
  PROVE  ServerInv'
<1> USE ServerAssumption
        DEF ServerInv, CountsType, LoggerInv, MutexInv, FreshInv, GrowthInv, RejectedInv,
            FailureReported, ErrorHasCause, MayLog, Goto, log
<1>1. CASE Accept(c)
  BY <1>1 DEF Accept
<1>2. CASE Receive(c)
  BY <1>2 DEF Receive
<1>3. CASE BadLength(c)
  BY <1>3 DEF BadLength
<1>4. CASE Reject(c)
  BY <1>4 DEF Reject
<1>5. CASE Disconnect(c)
  BY <1>5 DEF Disconnect
<1> QED BY <1>1, <1>2, <1>3, <1>4, <1>5

LEMMA QueryInv ==
  ASSUME ServerInv, NEW c \in Connections, Count(c) \/ Take(c) \/ Finish(c)
  PROVE  ServerInv'
<1> USE ServerAssumption
        DEF ServerInv, CountsType, LoggerInv, MutexInv, FreshInv, GrowthInv, RejectedInv,
            FailureReported, ErrorHasCause, MayLog, Goto, log
<1>1. CASE Count(c)
  BY <1>1 DEF Count
<1>2. CASE Take(c)
  BY <1>2 DEF Take
<1>3. CASE Finish(c)
  BY <1>3 DEF Finish
<1> QED BY <1>1, <1>2, <1>3

(* The comparison: the count has not grown, so the query logged nothing;    *)
(* or it has, or the query did not parse, so somebody logged something.    *)
LEMMA CompareInv == ASSUME ServerInv, NEW c \in Connections, Compare(c) PROVE ServerInv'
<1> USE ServerAssumption
<1>1. /\ pc[c] = "ran"
      /\ UNCHANGED <<before, mutex, log_lock, error_count, own_errors, other_errors, parse_error>>
      /\ \/ ~Failed(c) /\ pc' = [pc EXCEPT ![c] = "good"]
         \/ Failed(c) /\ pc' = [pc EXCEPT ![c] = "bad"]
  BY DEF Compare, Goto, log
<1>2. error_count = before[c] + own_errors[c] + other_errors[c]
  BY <1>1 DEF ServerInv, GrowthInv
<1>3. ~Failed(c) => own_errors[c] = 0 /\ ~parse_error[c]
  BY <1>2 DEF Failed, ServerInv, CountsType
<1>4. Failed(c) => own_errors[c] + other_errors[c] > 0
  BY <1>1, <1>2 DEF Failed, ServerInv, CountsType, RejectedInv
<1>5. CountsType' /\ LoggerInv' /\ MutexInv' /\ FreshInv' /\ GrowthInv' /\ RejectedInv'
  BY <1>1 DEF ServerInv, CountsType, LoggerInv, MutexInv, FreshInv, GrowthInv, RejectedInv, MayLog
<1>6. FailureReported'
  BY <1>1, <1>3 DEF ServerInv, CountsType, FailureReported
<1>7. ErrorHasCause'
  BY <1>1, <1>4 DEF ServerInv, CountsType, ErrorHasCause
<1> QED BY <1>5, <1>6, <1>7 DEF ServerInv

LEMMA AnswerInv ==
  ASSUME ServerInv, NEW c \in Connections, AnswerGood(c) \/ AnswerBad(c)
  PROVE  ServerInv'
BY ServerAssumption
   DEF AnswerGood, AnswerBad, ServerInv, CountsType, LoggerInv, MutexInv, FreshInv, GrowthInv,
       RejectedInv, FailureReported, ErrorHasCause, MayLog, Goto, log

(* Every step keeps the invariant.                                         *)
LEMMA ServerNextInv == ServerInv /\ [ServerNext]_server_vars => ServerInv'
<1> SUFFICES ASSUME ServerInv, [ServerNext]_server_vars PROVE ServerInv'
  OBVIOUS
<1>1. CASE UNCHANGED server_vars
  BY <1>1 DEF server_vars, ServerInv, CountsType, LoggerInv, MutexInv, FreshInv, GrowthInv,
              RejectedInv, FailureReported, ErrorHasCause, MayLog
<1>2. CASE ServerNext
  <2>1. PICK c \in Connections :
          Step(c) \/ LogText(c) \/ Accept(c) \/ Receive(c) \/ BadLength(c) \/ Disconnect(c)
    BY <1>2 DEF ServerNext
  <2> QED BY <2>1, LogTextInv, LogCountInv, ArrivalInv, QueryInv, CompareInv, AnswerInv
             DEF Step
<1> QED BY <1>1, <1>2

(* The errors of a query and of the others account for the growth of the    *)
(* shared error count, for any number of connections.                      *)
THEOREM ServerInvariance == ServerSpec => []ServerInv
<1> QED BY ServerInitInv, ServerNextInv, PTL DEF ServerSpec

(* A query that logged an error or did not parse is never answered as a     *)
(* success (server_connection_thread_proc compares the error counts).      *)
THEOREM FailuresAreReported == ServerSpec => []FailureReported
<1>1. ServerInv => FailureReported
  BY DEF ServerInv
<1> QED BY <1>1, ServerInvariance, PTL

(* A query answered as failed logged an error, or another connection did    *)
(* since the query's thread read the error count.                          *)
THEOREM ErrorsHaveCauses == ServerSpec => []ErrorHasCause
<1>1. ServerInv => ErrorHasCause
  BY DEF ServerInv
<1> QED BY <1>1, ServerInvariance, PTL

(* Queries run one at a time: g_query_exec_mutex guards the catalogue, the  *)
(* columns and the GPU, none of which has a lock of its own.               *)
THEOREM OneQueryAtATime ==
  ServerSpec => [](\A c, d \in Connections : pc[c] = "running" /\ pc[d] = "running" => c = d)
<1>1. ServerInv => \A c, d \in Connections : pc[c] = "running" /\ pc[d] = "running" => c = d
  BY DEF ServerInv, MutexInv
<1> QED BY <1>1, ServerInvariance, PTL
===============================================================================
