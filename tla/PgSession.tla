------------------------------- MODULE PgSession -------------------------------
(***************************************************************************)
(* One connection of the Postgres server of src/src/server/pg_server.c      *)
(* after its startup: the messages of the extended and the simple query     *)
(* protocol, the slots of prepared statements and portals, and the replies. *)
(*                                                                         *)
(* A query is a record of what the server makes of its text: whether its    *)
(* first word looks like a SELECT, the rows of its last statement when that *)
(* is a SELECT, whether it writes, and the database it switches to.  That   *)
(* a query runs into an error is chosen freely: the error may be another    *)
(* connection's (module Server).                                           *)
(***************************************************************************)
EXTENDS Integers, Sequences, FiniteSets, FiniteSetsExt

CONSTANTS
  Names,           (* the names of statements and portals                   *)
  Queries,         (* [select, writes : BOOLEAN, rows : Nat or NoRows, use] *)
  NoRows,          (* the last statement yields no result set               *)
  NoUse,           (* no USE in the query                                   *)
  NoSlot,          (* a free slot                                           *)
  MaxStatements,   (* PG_MAX_PREPARED_STATEMENTS                            *)
  MaxPortals,      (* PG_MAX_PORTALS                                        *)
  MaxReplies,      (* bound: the replies between two ReadyForQuery          *)
  MaxFetch         (* bound: max_rows of an Execute                         *)

Statement == [name : Names, sql : Queries]

(* delivered, runs and last are history: the rows sent, how often the query *)
(* ran, and what its last Execute replied.                                 *)
Portal ==
  [name : Names, sql : Queries, executed : BOOLEAN, had_error : BOOLEAN,
   rows : Nat \cup {NoRows}, rows_sent : Nat, delivered : Seq(Nat), runs : Nat,
   last : {"none", "complete", "suspended"}]

ASSUME PgSessionAssumption ==
  /\ MaxStatements \in Nat \ {0} /\ MaxPortals \in Nat \ {0}
  /\ MaxReplies \in Nat /\ MaxFetch \in Nat
  /\ \A q \in Queries : /\ q.select \in BOOLEAN /\ q.writes \in BOOLEAN
                        /\ q.rows \in Nat \cup {NoRows}
  /\ NoSlot \notin Statement \cup Portal

VARIABLES
  statements,         (* the slots of prepared statements                   *)
  portals,            (* the slots of portals                               *)
  in_failed_pipeline,
  current_database,
  replies,            (* the replies since the last ReadyForQuery           *)
  acked,              (* history: the last message and its outcome          *)
  shape_writes        (* history: a Describe of a statement has written     *)

vars == <<statements, portals, in_failed_pipeline, current_database, replies,
          acked, shape_writes>>

Init ==
  /\ statements = [i \in 1 .. MaxStatements |-> NoSlot]
  /\ portals = [i \in 1 .. MaxPortals |-> NoSlot]
  /\ in_failed_pipeline = FALSE
  /\ current_database = NoUse
  /\ replies = <<>>
  /\ acked = <<>>
  /\ shape_writes = FALSE

Reply(r, message) == /\ Len(replies) < MaxReplies
                     /\ replies' = Append(replies, r)
                     /\ acked' = message

(* An ErrorResponse; the rest of the pipeline is discarded.                *)
Error == Reply("error", <<"error">>) /\ in_failed_pipeline' = TRUE

(* Parse, Bind, Describe, Execute and Close are discarded after an error.  *)
Heard == ~in_failed_pipeline

-------------------------------------------------------------------------------
(* The slots                                                               *)

InUse(table)      == {i \in DOMAIN table : table[i] # NoSlot}
Found(table, n)   == {i \in InUse(table) : table[i].name = n}

(* Mutant of Freed: the slot of that name stays in use.                    *)
FreedNever(table, n) == table

Freed(table, n)   == IF Found(table, n) = {} THEN table
                     ELSE [table EXCEPT ![Min(Found(table, n))] = NoSlot]
Free(table)       == DOMAIN table \ InUse(table)

(* pg_session_alloc_statement and pg_session_alloc_portal: the slot of that *)
(* name is freed, and the first free slot taken.                           *)
CanAlloc(table, n) == Free(Freed(table, n)) # {}

Alloc(table, slot) == LET freed == Freed(table, slot.name)
                      IN  [freed EXCEPT ![Min(Free(freed))] = slot]

-------------------------------------------------------------------------------
(* Parse, Bind and Close                                                   *)

Parse(n, q) ==
  /\ Heard
  /\ CanAlloc(statements, n)
  /\ statements' = Alloc(statements, [name |-> n, sql |-> q])
  /\ Reply("parse complete", <<"parse", n, q>>)
  /\ UNCHANGED <<portals, in_failed_pipeline, current_database, shape_writes>>

(* A new portal has not run.                                               *)
NewPortal(p, q) ==
  [name |-> p, sql |-> q, executed |-> FALSE, had_error |-> FALSE, rows |-> NoRows,
   rows_sent |-> 0, delivered |-> <<>>, runs |-> 0, last |-> "none"]

Bind(p, n) ==
  /\ Heard
  /\ Found(statements, n) # {}
  /\ CanAlloc(portals, p)
  /\ portals' = Alloc(portals, NewPortal(p, statements[Min(Found(statements, n))].sql))
  /\ Reply("bind complete", <<"bind", p, n>>)
  /\ UNCHANGED <<statements, in_failed_pipeline, current_database, shape_writes>>

CloseStatement(n) ==
  /\ Heard
  /\ statements' = Freed(statements, n)
  /\ Reply("close complete", <<"close statement", n>>)
  /\ UNCHANGED <<portals, in_failed_pipeline, current_database, shape_writes>>

ClosePortal(p) ==
  /\ Heard
  /\ portals' = Freed(portals, p)
  /\ Reply("close complete", <<"close portal", p>>)
  /\ UNCHANGED <<statements, in_failed_pipeline, current_database, shape_writes>>

(* A Close that is malformed, or of neither kind, is acknowledged too.     *)
CloseNothing ==
  /\ Heard
  /\ Reply("close complete", <<>>)
  /\ UNCHANGED <<statements, portals, in_failed_pipeline, current_database, shape_writes>>

(* Mutant of Refuse: the pipeline goes on.                                 *)
RefuseOnly ==
  /\ Heard
  /\ Reply("error", <<"error">>)
  /\ UNCHANGED <<statements, portals, in_failed_pipeline, current_database, shape_writes>>

(* A message that is malformed, names a statement or portal that does not   *)
(* exist, has a bad parameter or finds no free slot changes nothing else.  *)
Refuse ==
  /\ Heard
  /\ Error
  /\ UNCHANGED <<statements, portals, current_database, shape_writes>>

(* COPY messages and unknown ones are refused in a failed pipeline, too.   *)
Unsupported ==
  /\ Error
  /\ UNCHANGED <<statements, portals, current_database, shape_writes>>

-------------------------------------------------------------------------------
(* Describe and Execute                                                    *)

(* Mutant of Executed: a portal that failed runs again.                    *)
ExecutedRetry(portal, ok) ==
  IF portal.executed /\ ~portal.had_error THEN portal
  ELSE [portal EXCEPT !.executed = TRUE, !.had_error = ~ok, !.runs = @ + 1,
                      !.rows = IF ok THEN portal.sql.rows ELSE NoRows]

(* pg_portal_ensure_executed                                               *)
Executed(portal, ok) ==
  IF portal.executed THEN portal
  ELSE [portal EXCEPT !.executed = TRUE, !.had_error = ~ok, !.runs = @ + 1,
                      !.rows = IF ok THEN portal.sql.rows ELSE NoRows]

(* Only a portal that runs now, without an error, switches the database.   *)
DatabaseAfter(portal, ok) ==
  IF ~portal.executed /\ ok /\ portal.sql.use # NoUse THEN portal.sql.use ELSE current_database

(* A statement that looks like a SELECT is run with dummy parameters to     *)
(* learn its columns; what becomes of the run is not looked at, but for     *)
(* the result set.                                                         *)
DescribeStatement(n) ==
  /\ Heard
  /\ Found(statements, n) # {}
  /\ LET q == statements[Min(Found(statements, n))].sql
     IN  shape_writes' = (shape_writes \/ (q.select /\ q.writes))
  /\ Reply("description", <<>>)
  /\ UNCHANGED <<statements, portals, in_failed_pipeline, current_database>>

DescribePortal(p, ok) ==
  /\ Heard
  /\ Found(portals, p) # {}
  /\ LET i      == Min(Found(portals, p))
         portal == IF portals[i].sql.select THEN Executed(portals[i], ok) ELSE portals[i]
     IN  /\ portals' = [portals EXCEPT ![i] = portal]
         /\ current_database' = IF portals[i].sql.select THEN DatabaseAfter(portals[i], ok)
                                ELSE current_database
         /\ IF portal.had_error /\ portal.sql.select THEN Error
            ELSE Reply("description", <<>>) /\ UNCHANGED in_failed_pipeline
  /\ UNCHANGED <<statements, shape_writes>>

(* Mutant of ToSend: the rows sent before are not taken off.               *)
ToSendWhole(portal, max_rows) ==
  IF max_rows > 0 THEN Min({max_rows, portal.rows}) ELSE portal.rows

ToSend(portal, max_rows) ==
  LET remaining == portal.rows - portal.rows_sent
  IN  IF max_rows > 0 THEN Min({max_rows, remaining}) ELSE remaining

(* portal has been sent its rows.                                          *)
Suspends(portal, max_rows) == max_rows > 0 /\ portal.rows_sent < portal.rows

Fetched(portal, max_rows) ==
  LET count == ToSend(portal, max_rows)
  IN  [portal EXCEPT !.rows_sent = @ + count,
                     !.delivered = @ \o [j \in 1 .. count |-> portal.rows_sent + j]]

Execute(p, max_rows, ok) ==
  /\ Heard
  /\ Found(portals, p) # {}
  /\ LET i       == Min(Found(portals, p))
         portal  == Executed(portals[i], ok)
         fetched == Fetched(portal, max_rows)
         last    == IF portal.rows # NoRows /\ Suspends(fetched, max_rows)
                    THEN "suspended" ELSE "complete"
     IN  /\ current_database' = DatabaseAfter(portals[i], ok)
         /\ \/ /\ portal.had_error
               /\ portals' = [portals EXCEPT ![i] = portal]
               /\ Error
            \/ /\ ~portal.had_error
               /\ portals' = [portals EXCEPT ![i] =
                                [(IF portal.rows = NoRows THEN portal ELSE fetched)
                                   EXCEPT !.last = last]]
               /\ Reply(last, <<>>)
               /\ UNCHANGED in_failed_pipeline
  /\ UNCHANGED <<statements, shape_writes>>

-------------------------------------------------------------------------------
(* Sync and the simple query, after which the server is ready again.       *)

Ready == replies' = <<>> /\ in_failed_pipeline' = FALSE /\ acked' = <<"ready">>

Sync ==
  /\ Ready
  /\ UNCHANGED <<statements, portals, current_database, shape_writes>>

(* The database is switched when the USE is reached, whatever fails then.  *)
SimpleQuery(q, reached) ==
  /\ Ready
  /\ current_database' = IF reached /\ q.use # NoUse THEN q.use ELSE current_database
  /\ UNCHANGED <<statements, portals, shape_writes>>

Next ==
  \/ \E n \in Names, q \in Queries : Parse(n, q)
  \/ \E p, n \in Names : Bind(p, n)
  \/ \E n \in Names : CloseStatement(n) \/ ClosePortal(n) \/ DescribeStatement(n)
  \/ \E p \in Names, ok \in BOOLEAN : DescribePortal(p, ok)
  \/ \E p \in Names, max_rows \in 0 .. MaxFetch, ok \in BOOLEAN : Execute(p, max_rows, ok)
  \/ CloseNothing
  \/ Refuse
  \/ Unsupported
  \/ Sync
  \/ \E q \in Queries, reached \in BOOLEAN : SimpleQuery(q, reached)

Spec == Init /\ [][Next]_vars

-------------------------------------------------------------------------------
(* Properties                                                              *)

Used(table) == {table[i] : i \in InUse(table)}

(* Slots hold statements and portals, each name in one slot only.          *)
TypeOK ==
  /\ DOMAIN statements = 1 .. MaxStatements /\ DOMAIN portals = 1 .. MaxPortals
  /\ Used(statements) \subseteq Statement /\ Used(portals) \subseteq Portal
  /\ \A n \in Names : /\ Cardinality(Found(statements, n)) <= 1
                      /\ Cardinality(Found(portals, n)) <= 1
  /\ in_failed_pipeline \in BOOLEAN /\ shape_writes \in BOOLEAN
  /\ current_database \in {q.use : q \in Queries} \cup {NoUse}

(* After an ErrorResponse nothing but errors is replied until the server is *)
(* ready again: no message behind the failed one takes effect unseen.      *)
QuietAfterError ==
  /\ \A i, j \in DOMAIN replies : i < j /\ replies[i] = "error" => replies[j] = "error"
  /\ in_failed_pipeline = (\E i \in DOMAIN replies : replies[i] = "error")

(* A portal's query runs once, however often it is described and executed,  *)
(* with all rows or in pieces, before and after a Sync.                    *)
RunOnce == \A p \in Used(portals) : p.runs <= 1 /\ (p.runs = 1) = p.executed

(* The rows of a portal are sent each once and in order; CommandComplete    *)
(* says that all are sent and PortalSuspended that some are left.          *)
RowsDelivered ==
  \A p \in Used(portals) :
    /\ p.delivered = [j \in 1 .. p.rows_sent |-> j]
    /\ p.rows # NoRows => /\ p.rows_sent <= p.rows
                          /\ p.last = "complete" => p.rows_sent = p.rows
                          /\ p.last = "suspended" => p.rows_sent < p.rows

(* The slots are a table by name: nothing else of how they are found, freed *)
(* and taken shows.                                                        *)
ByName(table) == [n \in {s.name : s \in Used(table)} |-> table[Min(Found(table, n))].sql]

Abstract == INSTANCE PgNames WITH prepared <- ByName(statements),
                                  bound    <- ByName(portals),
                                  failed   <- in_failed_pipeline

ImplementsNames == Abstract!Spec
===============================================================================
