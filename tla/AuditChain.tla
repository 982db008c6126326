----------------------------- MODULE AuditChain -----------------------------
(***************************************************************************)
(* The audit log of AXSHARE and its chain of hashes (services/             *)
(* audit_service.py), with the two operations of services/gdpr_service.py  *)
(* that rewrite it: the erasure of a user and the retention cleanup.       *)
(*                                                                         *)
(* Every request writes its own entry, in a transaction of its own.  It    *)
(* reads the hash of the newest entry, stamps the time and stores the      *)
(* entry; log does this in that order, log_event stamps before it reads.   *)
(* The clock gives each entry a time of its own, so that time stands for   *)
(* the entry's log_hash; "hashed" is the content the hash was computed     *)
(* from, of which only the actor may change later.                         *)
(***************************************************************************)
EXTENDS Naturals, FiniteSets

CONSTANTS
    Users,          \* those whose actions are logged
    Writers,        \* requests that log at the same time
    Loggers,        \* the functions they call, of "log" and "log_event"
    Maintenance,    \* what rewrites the log, of "erase" and "retain"
    MaxTime,        \* bound on the entries ever stamped
    None            \* an anonymized actor

ASSUME LoggersAssumption == Loggers \subseteq {"log", "log_event"}
ASSUME MaintenanceAssumption == Maintenance \subseteq {"erase", "retain"}
ASSUME TimeAssumption == MaxTime \in Nat
ASSUME NoneAssumption == None \notin Users

VARIABLES
    log,        \* the audit_logs table
    writers,    \* the entry each request is about to store
    clock       \* time of the last stamp

vars == <<log, writers, clock>>

Genesis == 0
Time == 1..MaxTime
Hash == Time \cup {Genesis}

Entry == [at : Time, actor : Users \cup {None}, hashed : Users, previous : Hash]

Phases == {"idle", "stamp", "read", "append"}
Writer == [pc : Phases, logger : {"log", "log_event"}, actor : Users \cup {None},
           at : Hash, previous : Hash]
Idle == [pc |-> "idle", logger |-> "log", actor |-> None, at |-> Genesis, previous |-> Genesis]

TypeOK ==
    /\ log \subseteq Entry
    /\ writers \in [Writers -> Writer]
    /\ clock \in Hash
    /\ \A w \in Writers : writers[w].pc # "idle" => writers[w].actor \in Users
    /\ \A w \in Writers : writers[w].pc = "append" => writers[w].at \in Time

Init ==
    /\ log = {}
    /\ writers = [w \in Writers |-> Idle]
    /\ clock = 0

-----------------------------------------------------------------------------
(* The chain *)

\* Mutant: the oldest entry is taken for the newest.
IsLastAscending(h, entries) ==
    \/ entries = {} /\ h = Genesis
    \/ \E e \in entries : h = e.at /\ \A d \in entries : e.at <= d.at
\* h is the hash of the newest of some entries, or the genesis hash.
IsLast(h, entries) ==
    \/ entries = {} /\ h = Genesis
    \/ \E e \in entries : h = e.at /\ \A d \in entries : d.at <= e.at

\* What verify_chain compares, walking the log by time: the hash an entry names and
\* that of the entry before it.
Before(e) == {d \in log : d.at < e.at}
Follows(e) == \E d \in Before(e) : e.previous = d.at /\ \A c \in Before(e) : c.at <= d.at

-----------------------------------------------------------------------------
(* Writing an entry *)

Event(w, logger, actor) ==
    /\ writers[w].pc = "idle"
    /\ writers' = [writers EXCEPT ![w] = [Idle EXCEPT !.pc = IF logger = "log" THEN "read" ELSE "stamp",
                                                      !.logger = logger, !.actor = actor]]
    /\ UNCHANGED <<log, clock>>

\* _get_last_hash
ReadLast(w) ==
    /\ writers[w].pc = "read"
    /\ \E h \in Hash :
        /\ IsLast(h, log)
        /\ writers' = [writers EXCEPT ![w].previous = h,
                        ![w].pc = IF writers[w].logger = "log" THEN "stamp" ELSE "append"]
    /\ UNCHANGED <<log, clock>>

\* datetime.now
Stamp(w) ==
    /\ writers[w].pc = "stamp"
    /\ clock < MaxTime
    /\ clock' = clock + 1
    /\ writers' = [writers EXCEPT ![w].at = clock + 1,
                    ![w].pc = IF writers[w].logger = "log" THEN "append" ELSE "read"]
    /\ UNCHANGED log

NewEntry(writer) ==
    [at |-> writer.at, actor |-> writer.actor, hashed |-> writer.actor,
     previous |-> writer.previous]

Append(w) ==
    /\ writers[w].pc = "append"
    /\ log' = log \cup {NewEntry(writers[w])}
    /\ writers' = [writers EXCEPT ![w] = Idle]
    /\ UNCHANGED clock

\* Any error is logged and swallowed: the entry is lost, the request goes on.
Fail(w) ==
    /\ writers[w].pc # "idle"
    /\ writers' = [writers EXCEPT ![w] = Idle]
    /\ UNCHANGED <<log, clock>>

-----------------------------------------------------------------------------
(* Rewriting the log *)

\* process_erasure, its fifth step.
Erase(u) ==
    /\ "erase" \in Maintenance
    /\ log' = {IF e.actor = u THEN [e EXCEPT !.actor = None] ELSE e : e \in log}
    /\ UNCHANGED <<writers, clock>>

\* Mutant: the entries in the retention period are deleted.
RetainOld(cutoff) ==
    /\ "retain" \in Maintenance
    /\ cutoff <= clock
    /\ log' = {e \in log : e.at < cutoff}
    /\ UNCHANGED <<writers, clock>>
\* run_retention_cleanup: entries older than a date are deleted.
Retain(cutoff) ==
    /\ "retain" \in Maintenance
    /\ cutoff <= clock
    /\ log' = {e \in log : e.at >= cutoff}
    /\ UNCHANGED <<writers, clock>>

Next ==
    \/ \E w \in Writers :
        \/ \E logger \in Loggers, actor \in Users : Event(w, logger, actor)
        \/ ReadLast(w) \/ Stamp(w) \/ Append(w) \/ Fail(w)
    \/ \E u \in Users : Erase(u)
    \/ \E cutoff \in Time : Retain(cutoff)

Spec == Init /\ [][Next]_vars
-----------------------------------------------------------------------------
(* Properties *)

\* Erasing a user and deleting old entries break the verification only where they
\* touch the log: an entry still follows the one before it, unless it is the
\* oldest one kept, and has the content of its hash, unless it was anonymized.
LinksSurvive ==
    \A e \in log :
        /\ Before(e) = {} \/ Follows(e)
        /\ e.actor \in {e.hashed, None}

\* What keeps the links when one request logs at a time (log, log_event): the
\* entry a writer has read is still the newest when it stores its own, unless all
\* were deleted since, and every stamp in use is newer than the log.
Current(h) == IsLast(h, log) \/ (log = {} /\ Maintenance # {})

WriterIsCurrent ==
    \A w \in Writers :
        /\ writers[w].pc = "append" \/ (writers[w].logger = "log" /\ writers[w].pc = "stamp") =>
            Current(writers[w].previous)
        /\ writers[w].pc = "append" \/ (writers[w].logger = "log_event" /\ writers[w].pc = "read") =>
            writers[w].at \in Time /\ \A e \in log : e.at < writers[w].at

IInv ==
    /\ TypeOK
    /\ \A e \in log : e.at <= clock
    /\ \A w \in Writers : writers[w].at <= clock
    /\ WriterIsCurrent
    /\ LinksSurvive
=============================================================================
