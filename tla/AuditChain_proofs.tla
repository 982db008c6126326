------------------------- MODULE AuditChain_proofs -------------------------
(***************************************************************************)
(* Proofs about AuditChain when one request logs at a time, for any number  *)
(* of users and entries.                                                   *)
(***************************************************************************)
EXTENDS AuditChain, TLAPS

OneWriter == \A v, w \in Writers : v = w

LEMMA IdleTyped == Idle \in Writer /\ Idle.pc = "idle"
BY TimeAssumption DEF Idle, Writer, Phases, Hash, Time, Genesis

\* What an entry that is newer than the log finds before it, and the others after it.
LEMMA Extend ==
    ASSUME log \subseteq Entry, NEW e \in Entry, \A d \in log : d.at < e.at, log' = log \cup {e}
    PROVE  /\ Before(e)' = log
           /\ \A d \in log : Before(d)' = Before(d)
<1>1. \A d \in log : d.at \in Nat
  BY TimeAssumption DEF Entry, Time
<1>2. e.at \in Nat
  BY TimeAssumption DEF Entry, Time
<1> QED
  BY <1>1, <1>2 DEF Before

\* Storing an entry that names the newest of the log, and is newer, keeps the links.
LEMMA ExtendLinks ==
    ASSUME log \subseteq Entry, LinksSurvive, NEW e \in Entry, e.actor = e.hashed,
           log = {} \/ IsLast(e.previous, log), \A d \in log : d.at < e.at, log' = log \cup {e}
    PROVE  LinksSurvive'
<1>1. Before(e)' = log /\ \A d \in log : Before(d)' = Before(d)
  BY Extend
<1>2. log = {} \/ \E d \in log : e.previous = d.at /\ \A c \in log : c.at <= d.at
  BY DEF IsLast
<1>3. Before(e)' = {} \/ Follows(e)'
  BY <1>1, <1>2 DEF Follows
<1>4. \A d \in log : Before(d)' = {} \/ Follows(d)'
  BY <1>1 DEF Follows, LinksSurvive
<1> QED
  BY <1>3, <1>4 DEF LinksSurvive

\* Anonymizing entries moves none of them.
LEMMA EraseLinks ==
    ASSUME TypeOK, LinksSurvive, NEW u \in Users, Erase(u)
    PROVE  LinksSurvive'
<1> DEFINE anonymous(e) == IF e.actor = u THEN [e EXCEPT !.actor = None] ELSE e
<1>1. log' = {anonymous(e) : e \in log}
  BY DEF Erase
<1>2. \A e \in log : /\ anonymous(e).at = e.at
                     /\ anonymous(e).previous = e.previous
                     /\ anonymous(e).hashed = e.hashed
                     /\ anonymous(e).actor \in {e.actor, None}
  BY DEF TypeOK, Entry
<1> HIDE DEF anonymous
<1>3. ASSUME NEW e \in log
      PROVE  /\ Before(anonymous(e))' = {} \/ Follows(anonymous(e))'
             /\ anonymous(e).actor \in {anonymous(e).hashed, None}
  <2>1. CASE Before(e) = {}
    <3>1. Before(anonymous(e))' = {}
      BY <1>1, <1>2, <1>3, <2>1 DEF Before
    <3> QED
      BY <1>2, <1>3, <3>1 DEF LinksSurvive
  <2>2. CASE Follows(e)
    <3>1. PICK d \in Before(e) : e.previous = d.at /\ \A c \in Before(e) : c.at <= d.at
      BY <2>2 DEF Follows
    <3>2. d \in log /\ d.at < e.at
      BY <3>1 DEF Before
    <3>3. anonymous(d) \in Before(anonymous(e))'
      BY <1>1, <1>2, <1>3, <3>2 DEF Before
    <3>4. \A c \in Before(anonymous(e))' : c.at <= anonymous(d).at
      BY <1>1, <1>2, <1>3, <3>1, <3>2 DEF Before
    <3>5. anonymous(e).previous = anonymous(d).at
      BY <1>2, <1>3, <3>1, <3>2
    <3>6. Follows(anonymous(e))'
      BY <3>3, <3>4, <3>5 DEF Follows
    <3> QED
      BY <1>2, <1>3, <3>6 DEF LinksSurvive
  <2> QED
    BY <1>3, <2>1, <2>2 DEF LinksSurvive
<1> QED
  BY <1>1, <1>3 DEF LinksSurvive

\* Of the entries kept, all but the oldest still have the one before them.
LEMMA RetainLinks ==
    ASSUME TypeOK, LinksSurvive, NEW cutoff \in Time, Retain(cutoff)
    PROVE  LinksSurvive'
<1>1. log' = {e \in log : e.at >= cutoff}
  BY DEF Retain
<1>2. cutoff \in Nat /\ \A e \in log : e.at \in Nat
  BY TimeAssumption DEF TypeOK, Entry, Time
<1>3. ASSUME NEW e \in log', Before(e)' # {}
      PROVE  Follows(e)'
  <2>1. PICK c \in log : c.at >= cutoff /\ c.at < e.at
    BY <1>1, <1>3 DEF Before
  <2>2. e \in log /\ c \in Before(e)
    BY <1>1, <1>3, <2>1 DEF Before
  <2>3. PICK d \in Before(e) : e.previous = d.at /\ \A b \in Before(e) : b.at <= d.at
    BY <2>2 DEF LinksSurvive, Follows
  <2>4. d \in Before(e)'
    BY <1>1, <1>2, <2>1, <2>2, <2>3 DEF Before
  <2>5. Before(e)' \subseteq Before(e)
    BY <1>1 DEF Before
  <2> QED
    BY <2>3, <2>4, <2>5 DEF Follows
<1> QED
  BY <1>1, <1>3 DEF LinksSurvive

LEMMA NextInductive ==
    ASSUME IInv, OneWriter, [Next]_vars
    PROVE  IInv'
<1>0. /\ TypeOK /\ WriterIsCurrent /\ LinksSurvive
      /\ \A e \in log : e.at <= clock
      /\ \A w \in Writers : writers[w].at <= clock
  BY DEF IInv
<1>u. clock \in Nat /\ \A e \in log : e.at \in Nat
  BY <1>0, TimeAssumption DEF TypeOK, Entry, Time, Hash, Genesis
\* A step of the writer alone: types and the writer's own obligation remain.
<1>a. ASSUME UNCHANGED log, clock' \in Hash, clock <= clock',
             writers' \in [Writers -> Writer],
             \A w \in Writers : writers'[w].pc # "idle" => writers'[w].actor \in Users,
             \A w \in Writers : writers'[w].pc = "append" => writers'[w].at \in Time,
             \A w \in Writers : writers'[w].at <= clock',
             WriterIsCurrent'
      PROVE  IInv'
  <2>1. TypeOK'
    BY <1>a, <1>0 DEF TypeOK
  <2>2. \A e \in log' : e.at <= clock'
    BY <1>a, <1>0, <1>u, TimeAssumption DEF Hash, Time, Genesis
  <2>3. LinksSurvive'
    BY <1>a, <1>0 DEF LinksSurvive, Follows, Before
  <2> QED
    BY <1>a, <2>1, <2>2, <2>3 DEF IInv
<1>1. ASSUME NEW w \in Writers, NEW logger \in Loggers, NEW actor \in Users, Event(w, logger, actor)
      PROVE  IInv'
  <2>1. writers' \in [Writers -> Writer]
    BY <1>0, <1>1, IdleTyped, LoggersAssumption DEF Event, TypeOK, Writer, Phases
  <2>2. /\ writers'[w].pc = IF logger = "log" THEN "read" ELSE "stamp"
        /\ writers'[w].logger = logger
        /\ writers'[w].actor = actor
        /\ writers'[w].at = Genesis
    BY <1>0, <1>1, IdleTyped DEF Event, TypeOK, Writer, Idle
  <2>3. \A v \in Writers : v = w
    BY DEF OneWriter
  <2>4. WriterIsCurrent'
    BY <1>1, <2>2, <2>3, LoggersAssumption DEF WriterIsCurrent
  <2> QED
    BY <1>a, <1>0, <1>1, <1>u, <2>1, <2>2, <2>3, <2>4 DEF Event, TypeOK, Genesis
<1>2. ASSUME NEW w \in Writers, ReadLast(w)
      PROVE  IInv'
  <2>0. PICK pc \in {"stamp", "append"} :
            pc = IF writers[w].logger = "log" THEN "stamp" ELSE "append"
    OBVIOUS
  <2>1. PICK h \in Hash :
            /\ IsLast(h, log)
            /\ writers' = [writers EXCEPT ![w].previous = h, ![w].pc = pc]
    BY <1>2, <2>0 DEF ReadLast
  <2>2. writers' \in [Writers -> Writer]
    <3>1. [writers[w] EXCEPT !.previous = h, !.pc = pc] \in Writer
      BY <1>0 DEF TypeOK, Writer, Phases
    <3>2. writers' = [writers EXCEPT ![w] = [writers[w] EXCEPT !.previous = h, !.pc = pc]]
      BY <1>0, <2>1 DEF TypeOK
    <3> QED
      BY <1>0, <3>1, <3>2 DEF TypeOK
  <2>3. /\ writers'[w].pc = pc
        /\ writers'[w].previous = h
        /\ writers'[w].logger = writers[w].logger
        /\ writers'[w].actor = writers[w].actor /\ writers'[w].at = writers[w].at
    BY <1>0, <2>1 DEF TypeOK, Writer
  <2>4. \A v \in Writers : v = w
    BY DEF OneWriter
  <2>5. writers[w].pc = "read" /\ writers[w].logger \in {"log", "log_event"} /\ UNCHANGED <<log, clock>>
    BY <1>0, <1>2 DEF ReadLast, TypeOK, Writer
  <2>6. WriterIsCurrent'
    <3>1. Current(h)'
      BY <2>1, <2>5 DEF Current
    <3>2. pc = "append" => writers'[w].at \in Time /\ \A e \in log' : e.at < writers'[w].at
      BY <1>0, <2>0, <2>3, <2>5 DEF WriterIsCurrent
    <3> QED
      BY <2>0, <2>3, <2>4, <3>1, <3>2 DEF WriterIsCurrent
  <2>7. writers'[w].pc = "append" => writers'[w].at \in Time
    BY <1>0, <2>0, <2>3, <2>5 DEF WriterIsCurrent
  <2> QED
    BY <1>a, <1>0, <1>u, <2>2, <2>3, <2>4, <2>5, <2>6, <2>7 DEF TypeOK
<1>3. ASSUME NEW w \in Writers, Stamp(w)
      PROVE  IInv'
  <2>0. PICK pc \in {"append", "read"} :
            pc = IF writers[w].logger = "log" THEN "append" ELSE "read"
    OBVIOUS
  <2>1. /\ writers[w].pc = "stamp" /\ clock < MaxTime /\ clock' = clock + 1 /\ UNCHANGED log
        /\ writers' = [writers EXCEPT ![w].at = clock + 1, ![w].pc = pc]
        /\ writers[w].logger \in {"log", "log_event"}
    BY <1>0, <1>3, <2>0 DEF Stamp, TypeOK, Writer
  <2>2. clock + 1 \in Time /\ clock + 1 \in Hash
    BY <1>u, <2>1, TimeAssumption DEF Time, Hash
  <2>3. writers' \in [Writers -> Writer]
    <3>1. [writers[w] EXCEPT !.at = clock + 1, !.pc = pc] \in Writer
      BY <1>0, <2>2 DEF TypeOK, Writer, Phases
    <3>2. writers' = [writers EXCEPT ![w] = [writers[w] EXCEPT !.at = clock + 1, !.pc = pc]]
      BY <1>0, <2>1 DEF TypeOK
    <3> QED
      BY <1>0, <3>1, <3>2 DEF TypeOK
  <2>4. /\ writers'[w].pc = pc
        /\ writers'[w].at = clock + 1
        /\ writers'[w].logger = writers[w].logger
        /\ writers'[w].actor = writers[w].actor /\ writers'[w].previous = writers[w].previous
    BY <1>0, <2>1 DEF TypeOK, Writer
  <2>5. \A v \in Writers : v = w
    BY DEF OneWriter
  <2>6. \A e \in log : e.at < clock + 1
    BY <1>0, <1>u
  <2>10. PICK h \in Hash : h = writers[w].previous /\ h = writers'[w].previous
    BY <1>0, <2>4 DEF TypeOK, Writer
  <2>7. WriterIsCurrent'
    <3>1. pc = "append" => Current(h)'
      BY <1>0, <2>0, <2>1, <2>10 DEF WriterIsCurrent, Current
    <3>2. writers'[w].at \in Time /\ \A e \in log' : e.at < writers'[w].at
      BY <2>1, <2>2, <2>4, <2>6
    <3>3. ~(writers'[w].logger = "log" /\ writers'[w].pc = "stamp")
      BY <2>4
    <3> QED
      BY <2>5, <2>10, <3>1, <3>2, <3>3, <2>4 DEF WriterIsCurrent
  <2>8. clock <= clock'
    BY <1>u, <2>1
  <2>9. /\ writers'[w].actor \in Users
        /\ writers'[w].at \in Time /\ writers'[w].at <= clock'
    BY <1>0, <1>u, <2>1, <2>2, <2>4 DEF TypeOK
  <2>11. clock' \in Hash
    BY <2>1, <2>2
  <2> QED
    BY <1>a, <2>1, <2>3, <2>5, <2>7, <2>8, <2>9, <2>11
<1>4. ASSUME NEW w \in Writers, Append(w)
      PROVE  IInv'
  <2> DEFINE e == NewEntry(writers[w])
  <2>1. /\ writers[w].pc = "append" /\ log' = log \cup {e} /\ clock' = clock
        /\ writers' = [writers EXCEPT ![w] = Idle]
    BY <1>4 DEF Append
  <2>2. e \in Entry /\ e.actor = e.hashed /\ e.at = writers[w].at /\ e.previous = writers[w].previous
    BY <1>0, <2>1 DEF NewEntry, Entry, TypeOK, Writer
  <2>3. Current(e.previous) /\ \A d \in log : d.at < e.at
    BY <1>0, <2>1, <2>2 DEF WriterIsCurrent
  <2> HIDE DEF e
  <2>4. LinksSurvive'
    BY <1>0, <2>1, <2>2, <2>3, ExtendLinks DEF TypeOK, Current
  <2>5. writers'[w] = Idle /\ \A v \in Writers : v = w
    BY <1>0, <2>1 DEF TypeOK, OneWriter
  <2>6. TypeOK'
    BY <1>0, <2>1, <2>2, <2>5, IdleTyped DEF TypeOK
  <2>7. WriterIsCurrent'
    BY <2>5, IdleTyped DEF WriterIsCurrent, Idle
  <2>8. \A d \in log' : d.at <= clock'
    BY <1>0, <2>1, <2>2
  <2>9. \A v \in Writers : writers'[v].at <= clock'
    BY <1>u, <2>1, <2>5 DEF Idle, Genesis
  <2> QED
    BY <2>4, <2>6, <2>7, <2>8, <2>9 DEF IInv
<1>5. ASSUME NEW w \in Writers, Fail(w)
      PROVE  IInv'
  <2>1. writers'[w] = Idle /\ (\A v \in Writers : v = w) /\ writers' \in [Writers -> Writer]
    BY <1>0, <1>5, IdleTyped DEF Fail, TypeOK, OneWriter
  <2>2. WriterIsCurrent'
    BY <2>1, IdleTyped DEF WriterIsCurrent, Idle
  <2> QED
    BY <1>a, <1>0, <1>5, <1>u, <2>1, <2>2, IdleTyped DEF Fail, TypeOK, Idle, Genesis
<1>6. ASSUME NEW u \in Users, Erase(u)
      PROVE  IInv'
  <2>1. UNCHANGED <<writers, clock>> /\ Maintenance # {}
    BY <1>6 DEF Erase
  <2>2. \A e \in log' : e \in Entry /\ \E d \in log : e.at = d.at
    BY <1>0, <1>6 DEF Erase, TypeOK, Entry
  <2>3. TypeOK'
    BY <1>0, <2>1, <2>2 DEF TypeOK
  <2>4. ASSUME NEW w \in Writers, Current(writers[w].previous)
        PROVE  Current(writers[w].previous)'
    <3>1. CASE log = {}
      BY <1>6, <2>1, <3>1 DEF Erase, Current
    <3>2. CASE IsLast(writers[w].previous, log) /\ log # {}
      <4>1. PICK e \in log : writers[w].previous = e.at /\ \A d \in log : d.at <= e.at
        BY <3>2 DEF IsLast
      <4>2. PICK e1 \in log' : e1.at = e.at
        <5> DEFINE anonymous(d) == IF d.actor = u THEN [d EXCEPT !.actor = None] ELSE d
        <5>1. anonymous(e).at = e.at
          BY <1>0 DEF TypeOK, Entry
        <5>2. log' = {anonymous(d) : d \in log}
          BY <1>6 DEF Erase
        <5> HIDE DEF anonymous
        <5>3. anonymous(e) \in log'
          BY <5>2
        <5> QED
          BY <5>1, <5>3
      <4>3. PICK h : h = writers[w].previous
        OBVIOUS
      <4>4. IsLast(h, log)'
        BY <2>2, <4>1, <4>2, <4>3 DEF IsLast
      <4> QED
        BY <2>1, <4>3, <4>4 DEF Current
    <3> QED
      BY <2>4, <3>1, <3>2 DEF Current
  <2>5. WriterIsCurrent'
    BY <1>0, <2>1, <2>2, <2>4 DEF WriterIsCurrent
  <2>6. \A e \in log' : e.at <= clock'
    BY <1>0, <2>1, <2>2
  <2>7. LinksSurvive'
    BY <1>0, <1>6, EraseLinks
  <2> QED
    BY <1>0, <2>1, <2>3, <2>5, <2>6, <2>7 DEF IInv
<1>7. ASSUME NEW cutoff \in Time, Retain(cutoff)
      PROVE  IInv'
  <2>1. /\ UNCHANGED <<writers, clock>> /\ Maintenance # {}
        /\ log' = {e \in log : e.at >= cutoff}
        /\ cutoff \in Nat
    BY <1>7, TimeAssumption DEF Retain, Time
  <2>2. TypeOK'
    BY <1>0, <2>1 DEF TypeOK
  <2>3. ASSUME NEW w \in Writers, Current(writers[w].previous)
        PROVE  Current(writers[w].previous)'
    <3>1. CASE log' = {}
      BY <2>1, <3>1 DEF Current
    <3>2. CASE log' # {}
      <4>1. PICK e \in log : writers[w].previous = e.at /\ \A d \in log : d.at <= e.at
        BY <2>1, <2>3, <3>2 DEF Current, IsLast
      <4>2. e \in log'
        BY <1>u, <2>1, <3>2, <4>1
      <4> QED
        BY <2>1, <4>1, <4>2 DEF Current, IsLast
    <3> QED
      BY <3>1, <3>2
  <2>4. WriterIsCurrent'
    BY <1>0, <2>1, <2>3 DEF WriterIsCurrent
  <2>5. LinksSurvive'
    BY <1>0, <1>7, RetainLinks
  <2> QED
    BY <1>0, <2>1, <2>2, <2>4, <2>5 DEF IInv
<1>8. CASE UNCHANGED vars
  BY <1>8, <1>0 DEF vars, IInv, TypeOK, WriterIsCurrent, Current, LinksSurvive, Follows, Before
<1> QED
  BY <1>1, <1>2, <1>3, <1>4, <1>5, <1>6, <1>7, <1>8 DEF Next

\* With one request at a time, failing or not, the invariant holds.
THEOREM InvariantHolds == OneWriter => (Spec => []IInv)
<1> SUFFICES ASSUME OneWriter
             PROVE  Spec => []IInv
  OBVIOUS
<1>1. Init => IInv
  BY IdleTyped, TimeAssumption DEF Init, IInv, TypeOK, WriterIsCurrent, LinksSurvive,
                                  Hash, Genesis, Idle
<1>2. IInv /\ [Next]_vars => IInv'
  BY NextInductive
<1> QED
  BY <1>1, <1>2, PTL DEF Spec

\* The erasure of users and the deletion of old entries leave every other link.
THEOREM LinksHold == OneWriter => (Spec => []LinksSurvive)
<1>1. IInv => LinksSurvive
  BY DEF IInv
<1> QED
  BY <1>1, InvariantHolds, PTL
=============================================================================
