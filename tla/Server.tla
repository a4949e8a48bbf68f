-------------------------------- MODULE Server --------------------------------
(***************************************************************************)
(* The connections of src/src/server/server.c, and of the simple queries    *)
(* and portals of pg_server.c, which do the same: one thread for every      *)
(* connection, one query at a time under g_query_exec_mutex, and the error  *)
(* of a query recognised by the error count of the log, which all threads   *)
(* share (src/src/base/base_log.c).                                        *)
(***************************************************************************)
EXTENDS Integers, FiniteSets

CONSTANTS
  Connections,
  None,           (* no connection                                          *)
  MaxErrors       (* bound: once so many errors are logged, queries log no
                     more and no more requests of a bad length come        *)

ASSUME ServerAssumption == None \notin Connections /\ MaxErrors \in Nat

VARIABLES
  pc,             (* where each connection's thread is                      *)
  before,         (* error_count_before of each                             *)
  mutex,          (* the holder of g_query_exec_mutex                       *)
  log_lock,       (* the holder of the log's lock                           *)
  error_count,    (* the log's error_count                                  *)
  text,           (* who wrote last_error_buf                               *)
  size,           (* who wrote last_error_size                              *)
  parse_error,    (* had_parse_error of each                                *)
  own_errors,     (* history: the errors of the current query of each       *)
  other_errors,   (* history: the errors others logged since it counted     *)
  answer          (* the last answer of each                                *)

server_vars == <<pc, before, mutex, log_lock, error_count, text, size, parse_error,
                 own_errors, other_errors, answer>>

log == <<log_lock, error_count, text, size, own_errors, other_errors>>

NoAnswer == [status |-> "none", text |-> None, size |-> None]

ServerInit ==
  /\ pc = [c \in Connections |-> "closed"]
  /\ before = [c \in Connections |-> 0]
  /\ mutex = None /\ log_lock = None
  /\ error_count = 0 /\ text = None /\ size = None
  /\ parse_error = [c \in Connections |-> FALSE]
  /\ own_errors = [c \in Connections |-> 0]
  /\ other_errors = [c \in Connections |-> 0]
  /\ answer = [c \in Connections |-> NoAnswer]

Goto(c, from, to) == pc[c] = from /\ pc' = [pc EXCEPT ![c] = to]

-------------------------------------------------------------------------------
(* The log (log_logf at the error level): the message, its size and the     *)
(* count are written under the lock, and read without it.                  *)

(* Threads that may log an error: one that runs a query, and one that has   *)
(* found the length of its request invalid.                                *)
MayLog(c) == pc[c] \in {"running", "rejecting"}

LogText(c) ==
  /\ MayLog(c)
  /\ log_lock = None
  /\ pc[c] = "running" => error_count < MaxErrors
  /\ pc[c] = "rejecting" => own_errors[c] = 0
  /\ log_lock' = c
  /\ text' = c
  /\ UNCHANGED <<pc, before, mutex, error_count, size, parse_error,
                 own_errors, other_errors, answer>>

LogCount(c) ==
  /\ log_lock = c
  /\ log_lock' = None
  /\ size' = c
  /\ error_count' = error_count + 1
  /\ own_errors' = [own_errors EXCEPT ![c] = @ + 1]
  /\ other_errors' = [d \in Connections |-> other_errors[d] + IF d = c THEN 0 ELSE 1]
  /\ UNCHANGED <<pc, before, mutex, text, parse_error, answer>>

-------------------------------------------------------------------------------
(* server_connection_thread_proc                                           *)

(* server_run accepts a connection and launches its thread.                *)
Accept(c) ==
  /\ Goto(c, "closed", "idle")
  /\ answer' = [answer EXCEPT ![c] = NoAnswer]
  /\ UNCHANGED <<before, mutex, log, parse_error>>

(* A request arrives whole.                                                *)
Receive(c) ==
  /\ Goto(c, "idle", "received")
  /\ own_errors' = [own_errors EXCEPT ![c] = 0]
  /\ UNCHANGED <<before, mutex, log_lock, error_count, text, size, parse_error,
                 other_errors, answer>>

(* The length is no good: an error is logged and the connection closed.    *)
BadLength(c) ==
  /\ error_count < MaxErrors
  /\ Goto(c, "idle", "rejecting")
  /\ own_errors' = [own_errors EXCEPT ![c] = 0]
  /\ UNCHANGED <<before, mutex, log_lock, error_count, text, size, parse_error,
                 other_errors, answer>>

Reject(c) ==
  /\ own_errors[c] = 1
  /\ Goto(c, "rejecting", "closed")
  /\ UNCHANGED <<before, mutex, log, parse_error, answer>>

(* The client is gone, before a request or in the middle of one.           *)
Disconnect(c) ==
  /\ Goto(c, "idle", "closed")
  /\ UNCHANGED <<before, mutex, log, parse_error, answer>>

(* Mutant of Count: the errors are counted from the start of the server.   *)
CountFromStart(c) ==
  /\ Goto(c, "received", "counted")
  /\ before' = [before EXCEPT ![c] = 0]
  /\ other_errors' = [other_errors EXCEPT ![c] = 0]
  /\ UNCHANGED <<mutex, log_lock, error_count, text, size, own_errors, parse_error, answer>>

Count(c) ==
  /\ Goto(c, "received", "counted")
  /\ before' = [before EXCEPT ![c] = error_count]
  /\ other_errors' = [other_errors EXCEPT ![c] = 0]
  /\ UNCHANGED <<mutex, log_lock, error_count, text, size, own_errors, parse_error, answer>>

Take(c) ==
  /\ mutex = None
  /\ Goto(c, "counted", "running")
  /\ mutex' = c
  /\ UNCHANGED <<before, log, parse_error, answer>>

(* Mutant of Finish: a query that fails to parse keeps the mutex.          *)
FinishHolding(c) ==
  /\ log_lock # c
  /\ Goto(c, "running", "ran")
  /\ \E failed \in BOOLEAN :
       /\ failed => own_errors[c] > 0
       /\ parse_error' = [parse_error EXCEPT ![c] = failed]
       /\ mutex' = IF failed THEN c ELSE None
  /\ UNCHANGED <<before, log, answer>>

(* app_execute_query_capture returns.  A query that does not parse logs an  *)
(* error.                                                                  *)
Finish(c) ==
  /\ log_lock # c
  /\ Goto(c, "running", "ran")
  /\ mutex' = None
  /\ \E failed \in BOOLEAN :
       /\ failed => own_errors[c] > 0
       /\ parse_error' = [parse_error EXCEPT ![c] = failed]
  /\ UNCHANGED <<before, log, answer>>

Failed(c) == parse_error[c] \/ error_count > before[c]

(* Mutant of Compare: a parse error is all that counts.                    *)
CompareParse(c) ==
  /\ \/ ~parse_error[c] /\ Goto(c, "ran", "good")
     \/ parse_error[c] /\ Goto(c, "ran", "bad")
  /\ UNCHANGED <<before, mutex, log, parse_error, answer>>

Compare(c) ==
  /\ \/ ~Failed(c) /\ Goto(c, "ran", "good")
     \/ Failed(c)  /\ Goto(c, "ran", "bad")
  /\ UNCHANGED <<before, mutex, log, parse_error, answer>>

AnswerGood(c) ==
  /\ Goto(c, "good", "idle")
  /\ answer' = [answer EXCEPT ![c] = [status |-> "ok", text |-> None, size |-> None]]
  /\ UNCHANGED <<before, mutex, log, parse_error>>

(* log_last_error, without the lock.                                       *)
AnswerBad(c) ==
  /\ Goto(c, "bad", "idle")
  /\ answer' = [answer EXCEPT ![c] = [status |-> "error", text |-> text, size |-> size]]
  /\ UNCHANGED <<before, mutex, log, parse_error>>

Step(c) ==
  \/ Count(c) \/ Take(c) \/ Finish(c) \/ Compare(c) \/ AnswerGood(c) \/ AnswerBad(c)
  \/ LogCount(c) \/ Reject(c)

ServerNext ==
  \E c \in Connections :
    Step(c) \/ LogText(c) \/ Accept(c) \/ Receive(c) \/ BadLength(c) \/ Disconnect(c)

ServerSpec == ServerInit /\ [][ServerNext]_server_vars

(* Threads run: one that can go on with its request does.  Nothing is       *)
(* assumed of who gets the query mutex.                                    *)
FairServerSpec == ServerSpec /\ \A c \in Connections : WF_server_vars(Step(c))

-------------------------------------------------------------------------------
(* Properties                                                              *)

(* Every connection can still log the error of a bad length.               *)
Errors == 0 .. MaxErrors + Cardinality(Connections)

(* The threads, the two locks and the log are what the code has; only the   *)
(* thread that runs a query has the query mutex.                           *)
ServerTypeOK ==
  /\ pc \in [Connections -> {"idle", "received", "rejecting", "counted", "running",
                             "ran", "good", "bad", "closed"}]
  /\ before \in [Connections -> Errors]
  /\ mutex \in Connections \cup {None} /\ log_lock \in Connections \cup {None}
  /\ error_count \in Errors
  /\ text \in Connections \cup {None} /\ size \in Connections \cup {None}
  /\ parse_error \in [Connections -> BOOLEAN]
  /\ own_errors \in [Connections -> Errors]
  /\ other_errors \in [Connections -> Errors]
  /\ answer \in [Connections -> [status : {"none", "ok", "error"},
                                 text : Connections \cup {None},
                                 size : Connections \cup {None}]]
  /\ \A c \in Connections : pc[c] = "running" <=> mutex = c

(* A query that logged an error or did not parse is never answered as a     *)
(* success, whatever the other connections log meanwhile.                  *)
FailureReported ==
  \A c \in Connections : pc[c] = "good" => own_errors[c] = 0 /\ ~parse_error[c]

(* A query is answered as failed only if it logged an error, or another     *)
(* connection did between its first count of the errors and its second: the *)
(* error count never blames a query for an older error.                    *)
ErrorHasCause ==
  \A c \in Connections : pc[c] = "bad" => own_errors[c] + other_errors[c] > 0

(* Queries that wait for the query mutex do not wait on each other: one of  *)
(* the queries always gets to run, and to its end.                         *)
QueriesRun == (\E c \in Connections : pc[c] = "counted") ~> (\E c \in Connections : pc[c] = "ran")
===============================================================================
