-------------------------- MODULE ClientKeys_proofs --------------------------
(* Proofs about ClientKeys: the halves of the pair fit, for any number of  *)
(* devices and changes.                                                    *)
EXTENDS ClientKeys, TLAPS

(* What is left of a change that has not ended.                            *)
PinLefts ==
  {<<"public", "private", "store", "hash", "open">>, <<"private", "store", "hash", "open">>,
   <<"store", "hash", "open">>, <<"hash", "open">>, <<"open">>}
PhraseLefts == {<<"store", "private", "public">>, <<"private", "public">>, <<"public">>}
EraseLefts == {<<"delete", "clear">>, <<"clear">>}

Fitting(j) ==
  /\ j.kind = "pin" => j.left \in PinLefts
  /\ j.kind = "phrase" => j.left \in PhraseLefts
  /\ j.kind = "erase" => j.left \in EraseLefts
  /\ j.kind \in Changes => j.k # 0

Halves ==
  /\ server.pub = server.bundle
  /\ last = "pin" => server.form = "pin" /\ server.hash = server.bundle

(* What a change has done so far is still in place.                        *)
PinDone(d) ==
  LET s == Head(job[d].left)  k == job[d].k
  IN /\ s = "public" /\ ~torn => Halves
     /\ s # "public" => server.pub = k
     /\ s \in {"store", "hash", "open"} => server.bundle = k /\ server.form = "pin"
     /\ s \in {"hash", "open"} /\ job[d].alone => store[d] = k
     /\ s = "open" => server.hash = k

PhraseDone(d) ==
  LET s == Head(job[d].left)  k == job[d].k
  IN /\ s = "store" /\ ~torn => Halves
     /\ s # "store" /\ job[d].alone => store[d] = k
     /\ s = "public" => server.bundle = k

EraseDone(d) ==
  LET s == Head(job[d].left)
  IN /\ s = "delete" /\ ~torn => Halves
     /\ s = "clear" => server.pub = 0 /\ server.bundle = 0

Done(d) ==
  /\ job[d].kind = "pin" => PinDone(d)
  /\ job[d].kind = "phrase" => PhraseDone(d)
  /\ job[d].kind = "erase" => EraseDone(d)

(* A change that is alone is the only one, and so is one while nothing is  *)
(* torn.                                                                   *)
Alone ==
  \A d, e \in Changing : job[d].alone \/ ~torn => d = e

(* What a device is known to hold of the last change it holds while        *)
(* nothing changes.                                                        *)
Fresh ==
  /\ \A d \in Devices : ~keyOld[d] => Changing = {} /\ (key[d] # 0 => key[d] = server.bundle)
  /\ \A d \in Devices : ~storeOld[d] => Changing = {} /\ (store[d] # 0 => store[d] = server.bundle)
  /\ \A d \in Actors : job[d].kind \in {"wrap", "unlock"} /\ job[d].sure =>
       Changing = {} /\ job[d].k = server.bundle

IInv ==
  /\ TypeOK
  /\ \A d \in Actors : Fitting(job[d])
  /\ job[Peer].kind \in {"none", "wrap", "unlock"}
  /\ Alone /\ Fresh
  /\ Quiet => Halves
  /\ \A d \in Changing : job[d].alone \/ ~torn => Done(d)

-----------------------------------------------------------------------------
(* Programs and what is left of them *)

LEMMA PinShape ==
  ASSUME NEW l \in PinLefts
  PROVE  /\ l \in Seq(Steps) /\ l # <<>>
         /\ Head(l) \in {"public", "private", "store", "hash", "open"}
         /\ Head(l) = "public" => l = PinSteps
         /\ Head(l) = "public" => Tail(l) \in PinLefts /\ Tail(l) # <<>> /\ Head(Tail(l)) = "private"
         /\ Head(l) = "private" => Tail(l) \in PinLefts /\ Tail(l) # <<>> /\ Head(Tail(l)) = "store"
         /\ Head(l) = "store" => Tail(l) \in PinLefts /\ Tail(l) # <<>> /\ Head(Tail(l)) = "hash"
         /\ Head(l) = "hash" => Tail(l) \in PinLefts /\ Tail(l) # <<>> /\ Head(Tail(l)) = "open"
         /\ Head(l) = "open" => Tail(l) = <<>>
  <1>1. CASE l = <<"public", "private", "store", "hash", "open">>
    <2>1. l \in Seq(Steps) /\ l # <<>> /\ Head(l) = "public"
      BY <1>1 DEF Steps
    <2>2. Tail(l) = <<"private", "store", "hash", "open">>
      BY <1>1
    <2>3. <<"private", "store", "hash", "open">> # <<>> /\ Head(<<"private", "store", "hash", "open">>) = "private"
      OBVIOUS
    <2>4. Tail(l) \in PinLefts
      BY <2>2, Zenon DEF PinLefts
    <2> QED
      BY <1>1, <2>1, <2>2, <2>3, <2>4 DEF PinSteps
  <1>2. CASE l = <<"private", "store", "hash", "open">>
    <2>1. l \in Seq(Steps) /\ l # <<>> /\ Head(l) = "private"
      BY <1>2 DEF Steps
    <2>2. Tail(l) = <<"store", "hash", "open">>
      BY <1>2
    <2>3. <<"store", "hash", "open">> # <<>> /\ Head(<<"store", "hash", "open">>) = "store"
      OBVIOUS
    <2>4. Tail(l) \in PinLefts
      BY <2>2, Zenon DEF PinLefts
    <2> QED
      BY <1>2, <2>1, <2>2, <2>3, <2>4
  <1>3. CASE l = <<"store", "hash", "open">>
    <2>1. l \in Seq(Steps) /\ l # <<>> /\ Head(l) = "store"
      BY <1>3 DEF Steps
    <2>2. Tail(l) = <<"hash", "open">>
      BY <1>3
    <2>3. <<"hash", "open">> # <<>> /\ Head(<<"hash", "open">>) = "hash"
      OBVIOUS
    <2>4. Tail(l) \in PinLefts
      BY <2>2, Zenon DEF PinLefts
    <2> QED
      BY <1>3, <2>1, <2>2, <2>3, <2>4
  <1>4. CASE l = <<"hash", "open">>
    <2>1. l \in Seq(Steps) /\ l # <<>> /\ Head(l) = "hash"
      BY <1>4 DEF Steps
    <2>2. Tail(l) = <<"open">>
      BY <1>4
    <2>3. <<"open">> # <<>> /\ Head(<<"open">>) = "open"
      OBVIOUS
    <2>4. Tail(l) \in PinLefts
      BY <2>2, Zenon DEF PinLefts
    <2> QED
      BY <1>4, <2>1, <2>2, <2>3, <2>4
  <1>5. CASE l = <<"open">>
    <2>1. l \in Seq(Steps) /\ l # <<>> /\ Head(l) = "open"
      BY <1>5 DEF Steps
    <2>2. Tail(l) = <<>>
      BY <1>5
    <2> QED
      BY <1>5, <2>1, <2>2
  <1> QED
    BY <1>1, <1>2, <1>3, <1>4, <1>5 DEF PinLefts

LEMMA PhraseShape ==
  ASSUME NEW l \in PhraseLefts
  PROVE  /\ l \in Seq(Steps) /\ l # <<>>
         /\ Head(l) \in {"store", "private", "public"}
         /\ Head(l) = "store" => l = PhraseSteps
         /\ Head(l) = "store" => Tail(l) \in PhraseLefts /\ Tail(l) # <<>> /\ Head(Tail(l)) = "private"
         /\ Head(l) = "private" => Tail(l) \in PhraseLefts /\ Tail(l) # <<>> /\ Head(Tail(l)) = "public"
         /\ Head(l) = "public" => Tail(l) = <<>>
  <1>1. CASE l = <<"store", "private", "public">>
    <2>1. l \in Seq(Steps) /\ l # <<>> /\ Head(l) = "store"
      BY <1>1 DEF Steps
    <2>2. Tail(l) = <<"private", "public">>
      BY <1>1
    <2>3. <<"private", "public">> # <<>> /\ Head(<<"private", "public">>) = "private"
      OBVIOUS
    <2>4. Tail(l) \in PhraseLefts
      BY <2>2, Zenon DEF PhraseLefts
    <2> QED
      BY <1>1, <2>1, <2>2, <2>3, <2>4 DEF PhraseSteps
  <1>2. CASE l = <<"private", "public">>
    <2>1. l \in Seq(Steps) /\ l # <<>> /\ Head(l) = "private"
      BY <1>2 DEF Steps
    <2>2. Tail(l) = <<"public">>
      BY <1>2
    <2>3. <<"public">> # <<>> /\ Head(<<"public">>) = "public"
      OBVIOUS
    <2>4. Tail(l) \in PhraseLefts
      BY <2>2, Zenon DEF PhraseLefts
    <2> QED
      BY <1>2, <2>1, <2>2, <2>3, <2>4
  <1>3. CASE l = <<"public">>
    <2>1. l \in Seq(Steps) /\ l # <<>> /\ Head(l) = "public"
      BY <1>3 DEF Steps
    <2>2. Tail(l) = <<>>
      BY <1>3
    <2> QED
      BY <1>3, <2>1, <2>2
  <1> QED
    BY <1>1, <1>2, <1>3 DEF PhraseLefts

LEMMA EraseShape ==
  ASSUME NEW l \in EraseLefts
  PROVE  /\ l \in Seq(Steps) /\ l # <<>>
         /\ Head(l) \in {"delete", "clear"}
         /\ Head(l) = "delete" => l = EraseSteps
         /\ Head(l) = "delete" => Tail(l) \in EraseLefts /\ Tail(l) # <<>> /\ Head(Tail(l)) = "clear"
         /\ Head(l) = "clear" => Tail(l) = <<>>
  <1>1. CASE l = <<"delete", "clear">>
    <2>1. l \in Seq(Steps) /\ l # <<>> /\ Head(l) = "delete"
      BY <1>1 DEF Steps
    <2>2. Tail(l) = <<"clear">>
      BY <1>1
    <2>3. <<"clear">> # <<>> /\ Head(<<"clear">>) = "clear"
      OBVIOUS
    <2>4. Tail(l) \in EraseLefts
      BY <2>2, Zenon DEF EraseLefts
    <2> QED
      BY <1>1, <2>1, <2>2, <2>3, <2>4 DEF EraseSteps
  <1>2. CASE l = <<"clear">>
    <2>1. l \in Seq(Steps) /\ l # <<>> /\ Head(l) = "clear"
      BY <1>2 DEF Steps
    <2>2. Tail(l) = <<>>
      BY <1>2
    <2> QED
      BY <1>2, <2>1, <2>2
  <1> QED
    BY <1>1, <1>2 DEF EraseLefts

LEMMA ProgramsFit ==
  /\ PinSteps \in PinLefts /\ Head(PinSteps) = "public"
  /\ PhraseSteps \in PhraseLefts /\ Head(PhraseSteps) = "store"
  /\ EraseSteps \in EraseLefts /\ Head(EraseSteps) = "delete"
  <1>1. PinSteps \in PinLefts /\ PhraseSteps \in PhraseLefts /\ EraseSteps \in EraseLefts
    BY DEF PinSteps, PhraseSteps, EraseSteps, PinLefts, PhraseLefts, EraseLefts
  <1> QED
    BY <1>1 DEF PinSteps, PhraseSteps, EraseSteps

JobType ==
  [kind : Changes \cup {"none", "wrap", "unlock"}, left : Seq(Steps), k : Ids,
   alone : BOOLEAN, sure : BOOLEAN]

LEMMA FitsInType ==
  ASSUME NEW j, Fitting(j), j.kind \in Changes
  PROVE  j.left \in Seq(Steps) /\ j.left # <<>>
  BY PinShape, PhraseShape, EraseShape DEF Fitting, Changes

LEMMA ZeroIsId == 0 \in Ids
  BY KeysAssumption DEF Ids

LEMMA NoJobFits == NoJob \in JobType /\ Fitting(NoJob) /\ NoJob.kind = "none"
  <1>1. <<>> \in Seq(Steps)
    OBVIOUS
  <1> QED
    BY <1>1, KeysAssumption DEF NoJob, JobType, Ids, Fitting, Changes

-----------------------------------------------------------------------------
(* Changes begin, go on, end and stop *)

(* While one is under way nothing a device holds counts as fresh.          *)
LEMMA Underway ==
  ASSUME IInv, NEW d \in Changing
  PROVE  /\ d \in Devices /\ d # Peer
         /\ \A e \in Devices : keyOld[e] /\ storeOld[e]
         /\ \A e \in Actors : ~(job[e].kind \in {"wrap", "unlock"} /\ job[e].sure)
  BY KeysAssumption DEF IInv, Fresh, Changing

LEMMA Continues ==
  ASSUME IInv, NEW d \in Changing, TypeOK', NEW j,
         j.kind = job[d].kind, j.k = job[d].k, j.alone => job[d].alone, Fitting(j),
         job' = [job EXCEPT ![d] = j],
         UNCHANGED <<keyOld, storeOld>>, torn => torn',
         j.alone \/ ~torn' => Done(d)'
  PROVE  IInv'
  <1>0. d \in Actors /\ job[d].kind \in Changes
    BY DEF Changing, Actors
  <1>1. \A e \in Actors : job'[e] = IF e = d THEN j ELSE job[e]
    BY <1>0 DEF IInv, TypeOK
  <1>2. Changing' = Changing
    BY <1>1, <1>0 DEF Changing, Actors
  <1>3. \A e \in Actors : Fitting(job[e])'
    BY <1>1 DEF IInv, Fitting
  <1>4. Alone'
    BY <1>1, <1>2 DEF IInv, Alone, Changing, Actors
  <1>5. Fresh'
    <2>1. \A e \in Actors : ~(job'[e].kind \in {"wrap", "unlock"} /\ job'[e].sure)
      BY <1>1, <1>0, Underway DEF Changes
    <2> QED
      BY <2>1, Underway DEF Fresh
  <1>6. job'[Peer].kind \in {"none", "wrap", "unlock"}
    BY <1>1, Underway DEF IInv, Actors
  <1>7. ~Quiet'
    BY <1>2 DEF Quiet
  <1>8. ASSUME NEW e \in Changing', job'[e].alone \/ ~torn'  PROVE Done(e)'
    <2>1. e = d
      BY <1>8, <1>2, <1>1 DEF IInv, Alone, Changing, Actors
    <2> QED
      BY <2>1, <1>8, <1>1, <1>0
  <1> QED
    BY <1>3, <1>4, <1>5, <1>6, <1>7, <1>8 DEF IInv

(* A job ends; what is left to see is whether the keys fit.                *)
LEMMA Ends ==
  ASSUME IInv, NEW d \in Changing, TypeOK',
         job' = [job EXCEPT ![d] = NoJob],
         torn => torn' \/ job[d].alone,
         \A e \in Devices : ~keyOld'[e] =>
           job[d].alone /\ (key'[e] # 0 => key'[e] = server'.bundle),
         \A e \in Devices : ~storeOld'[e] =>
           job[d].alone /\ (store'[e] # 0 => store'[e] = server'.bundle),
         ~torn' => Halves'
  PROVE  IInv'
  <1>0. d \in Actors /\ job[d].kind \in Changes
    BY DEF Changing, Actors
  <1>1. \A e \in Actors : job'[e] = IF e = d THEN NoJob ELSE job[e]
    BY <1>0 DEF IInv, TypeOK
  <1>2. Changing' = Changing \ {d}
    BY <1>1, NoJobFits DEF Changing, Changes, Actors
  <1>3. job[d].alone \/ ~torn' => Changing' = {}
    BY <1>2 DEF IInv, Alone
  <1>4. \A e \in Actors : Fitting(job[e])'
    BY <1>1, NoJobFits DEF IInv, Fitting
  <1>5. Alone'
    <2>1. ASSUME NEW e \in Changing', NEW c \in Changing', job'[e].alone \/ ~torn'  PROVE e = c
      <3>1. job'[e] = job[e] /\ e \in Changing /\ c \in Changing
        BY <1>1, <1>2 DEF Changing, Actors
      <3> QED
        BY <1>3, <2>1, <3>1 DEF IInv, Alone
    <2> QED
      BY <2>1 DEF Alone
  <1>6. Fresh'
    <2>1. \A e \in Actors : ~(job'[e].kind \in {"wrap", "unlock"} /\ job'[e].sure)
      BY <1>1, NoJobFits, Underway
    <2> QED
      BY <2>1, <1>3 DEF Fresh
  <1>7. job'[Peer].kind \in {"none", "wrap", "unlock"}
    BY <1>1, Underway DEF IInv, Actors
  <1>8. ASSUME NEW e \in Changing', job'[e].alone \/ ~torn'  PROVE Done(e)'
    <2>1. job'[e] = job[e] /\ e \in Changing /\ e # d
      BY <1>1, <1>2 DEF Changing, Actors
    <2> QED
      BY <2>1, <1>3, <1>8 DEF IInv, Alone
  <1> QED
    BY <1>4, <1>5, <1>6, <1>7, <1>8 DEF IInv, Quiet

-----------------------------------------------------------------------------
(* The steps of a change *)

LEMMA AtStepIsChanging ==
  ASSUME IInv, NEW d \in Devices, NEW s, AtStep(d, s)
  PROVE  /\ d \in Changing /\ d \in Actors /\ d # Peer /\ job[d] \in JobType /\ Fitting(job[d])
         /\ job[d].k # 0 /\ Head(job[d].left) = s
         /\ job[d].alone \/ ~torn => Done(d)
         /\ job[d].left \in Seq(Steps) /\ Tail(job[d].left) \in Seq(Steps)
  BY KeysAssumption DEF IInv, AtStep, Changing, Actors, Fitting, TypeOK, JobType

LEMMA AdvanceTyped ==
  ASSUME IInv, NEW d \in Devices, NEW s, AtStep(d, s), Advance(d), begun' = begun,
         server' \in [pub : Ids, bundle : Ids, form : {"none", "pin", "phrase"}, hash : Ids],
         server'.bundle = 0 <=> server'.form = "none",
         store' \in [Actors -> Ids], key' \in [Actors -> Ids], keyOld' \in [Actors -> BOOLEAN],
         store'[Peer] = 0, key'[Peer] = 0
  PROVE  TypeOK'
  <1>1. d \in Actors /\ job[d] \in JobType /\ Tail(job[d].left) \in Seq(Steps)
    BY AtStepIsChanging
  <1>2. [job[d] EXCEPT !.left = Tail(job[d].left)] \in JobType
    BY <1>1 DEF JobType
  <1>3. job' \in [Actors -> JobType]
    BY <1>1, <1>2, NoJobFits DEF Advance, IInv, TypeOK, JobType
  <1>4. torn' \in BOOLEAN /\ storeOld' \in [Actors -> BOOLEAN]
    BY <1>1 DEF Advance, IInv, TypeOK, JobType
  <1>5. last' \in Changes \cup {"none"}
    BY <1>1, AtStepIsChanging DEF Advance, IInv, TypeOK, Changing
  <1> QED
    BY <1>3, <1>4, <1>5 DEF TypeOK, JobType, IInv

(* A step that is not the last.                                            *)
LEMMA AdvanceContinues ==
  ASSUME IInv, NEW d \in Devices, NEW s, AtStep(d, s), Advance(d), TypeOK',
         Tail(job[d].left) # <<>>, Fitting([job[d] EXCEPT !.left = Tail(job[d].left)]),
         UNCHANGED keyOld,
         job[d].alone \/ ~torn => Done(d)'
  PROVE  IInv'
  <1> DEFINE j == [job[d] EXCEPT !.left = Tail(job[d].left)]
  <1>1. d \in Changing /\ d \in Actors /\ job[d] \in JobType
    BY AtStepIsChanging
  <1>2. j.kind = job[d].kind /\ j.k = job[d].k /\ j.alone = job[d].alone
    BY <1>1 DEF JobType
  <1>3. job' = [job EXCEPT ![d] = j] /\ torn' = torn
    BY <1>1 DEF Advance, IInv, TypeOK
  <1>4. storeOld' = storeOld
    BY <1>1 DEF Advance, IInv, TypeOK
  <1> HIDE DEF j
  <1>5. Fitting(j)
    BY DEF j
  <1> QED
    BY <1>1, <1>2, <1>3, <1>4, <1>5, Continues

(* The last step.                                                          *)
LEMMA AdvanceEnds ==
  ASSUME IInv, NEW d \in Devices, NEW s, AtStep(d, s), Advance(d), TypeOK',
         Tail(job[d].left) = <<>>,
         \A e \in Devices : ~keyOld'[e] =>
           job[d].alone /\ (key'[e] # 0 => key'[e] = server'.bundle),
         job[d].alone => (store'[d] # 0 => store'[d] = server'.bundle),
         job[d].alone \/ ~torn => Halves'
  PROVE  IInv'
  <1>1. d \in Changing /\ d \in Actors /\ job[d] \in JobType
    BY AtStepIsChanging
  <1>2. job' = [job EXCEPT ![d] = NoJob] /\ torn' = (torn /\ ~job[d].alone)
    BY <1>1 DEF Advance, IInv, TypeOK, JobType
  <1>3. \A e \in Devices : ~storeOld'[e] => e = d /\ job[d].alone
    BY <1>1, Underway DEF Advance, IInv, TypeOK, JobType, Actors
  <1>4. (torn => torn' \/ job[d].alone) /\ (~torn' => Halves')
    BY <1>2
  <1>5. \A e \in Devices : ~storeOld'[e] =>
          job[d].alone /\ (store'[e] # 0 => store'[e] = server'.bundle)
    BY <1>3
  <1> QED
    BY <1>1, <1>2, <1>4, <1>5, Ends

LEMMA PublicHolds ==
  ASSUME IInv, NEW d \in Devices, Public(d)
  PROVE  IInv'
  <1>1. AtStep(d, "public") /\ Advance(d)
    BY DEF Public
  <1>2. /\ d \in Actors /\ job[d] \in JobType /\ Fitting(job[d]) /\ job[d].k # 0
        /\ Head(job[d].left) = "public" /\ job[d].kind \in Changes
        /\ job[d].alone \/ ~torn => Done(d)
    BY <1>1, AtStepIsChanging DEF Changing
  <1>3. TypeOK'
    <2>1. /\ server' \in [pub : Ids, bundle : Ids, form : {"none", "pin", "phrase"}, hash : Ids]
          /\ server'.bundle = 0 <=> server'.form = "none"
      BY <1>2 DEF Public, IInv, TypeOK, JobType
    <2> QED
      BY <1>1, <2>1, AdvanceTyped DEF Public, IInv, TypeOK
  <1>4. CASE job[d].kind = "pin"
    <2>1. /\ Tail(job[d].left) \in PinLefts /\ Tail(job[d].left) # <<>>
          /\ Head(Tail(job[d].left)) = "private"
      BY <1>4, <1>2, PinShape DEF Fitting
    <2>2. Fitting([job[d] EXCEPT !.left = Tail(job[d].left)])
      BY <1>4, <2>1, <1>2 DEF Fitting, JobType
    <2>3. job'[d] = [job[d] EXCEPT !.left = Tail(job[d].left)]
      BY <2>1, <1>1, <1>2 DEF Advance, IInv, TypeOK
    <2>4. Done(d)'
      BY <2>1, <2>3, <1>4, <1>2 DEF Done, PinDone, Public, IInv, TypeOK, JobType
    <2> QED
      BY <1>1, <1>3, <2>1, <2>2, <2>4, AdvanceContinues DEF Public
  <1>5. CASE job[d].kind = "phrase"
    <2>1. Tail(job[d].left) = <<>>
      BY <1>5, <1>2, PhraseShape DEF Fitting
    <2>2. job[d].alone \/ ~torn => PhraseDone(d)
      BY <1>5, <1>2 DEF Done
    <2>3. job[d].alone \/ ~torn => Halves'
      BY <2>1, <2>2, <1>1, <1>5, <1>2 DEF PhraseDone, Halves, Public, Advance, IInv, TypeOK
    <2>4. job[d].alone => store'[d] = server'.bundle
      BY <2>2, <1>2 DEF PhraseDone, Public, IInv, TypeOK
    <2>5. \A e \in Devices : keyOld'[e]
      BY <1>1, AtStepIsChanging, Underway DEF Public
    <2> QED
      BY <1>1, <1>3, <2>1, <2>3, <2>4, <2>5, AdvanceEnds
  <1>6. job[d].kind # "erase"
    BY <1>2, EraseShape DEF Fitting
  <1> QED
    BY <1>4, <1>5, <1>6, <1>2 DEF Changes

LEMMA PrivateHolds ==
  ASSUME IInv, NEW d \in Devices, Private(d)
  PROVE  IInv'
  <1>1. AtStep(d, "private") /\ Advance(d)
    BY DEF Private
  <1>2. /\ d \in Actors /\ d # Peer /\ job[d] \in JobType /\ Fitting(job[d]) /\ job[d].k # 0
        /\ Head(job[d].left) = "private" /\ job[d].kind \in Changes
        /\ job[d].alone \/ ~torn => Done(d)
    BY <1>1, AtStepIsChanging DEF Changing
  <1>7. job[d].kind # "erase"
    BY <1>2, EraseShape DEF Fitting
  <1>3. TypeOK'
    <2>1. /\ server' \in [pub : Ids, bundle : Ids, form : {"none", "pin", "phrase"}, hash : Ids]
          /\ server'.bundle = 0 <=> server'.form = "none"
      BY <1>2, <1>7 DEF Private, IInv, TypeOK, JobType, Changes
    <2>2. /\ store' \in [Actors -> Ids] /\ key' \in [Actors -> Ids]
          /\ keyOld' \in [Actors -> BOOLEAN] /\ store'[Peer] = 0 /\ key'[Peer] = 0
      BY <1>2, KeysAssumption DEF Private, IInv, TypeOK, JobType, Ids
    <2> QED
      BY <1>1, <2>1, <2>2, AdvanceTyped DEF Private
  <1>4. CASE job[d].kind = "pin"
    <2>1. /\ Tail(job[d].left) \in PinLefts /\ Tail(job[d].left) # <<>>
          /\ Head(Tail(job[d].left)) = "store"
      BY <1>4, <1>2, PinShape DEF Fitting
    <2>2. Fitting([job[d] EXCEPT !.left = Tail(job[d].left)])
      BY <1>4, <2>1, <1>2 DEF Fitting, JobType
    <2>3. job'[d] = [job[d] EXCEPT !.left = Tail(job[d].left)]
      BY <2>1, <1>1, <1>2 DEF Advance, IInv, TypeOK
    <2>4. job[d].alone \/ ~torn => Done(d)'
      BY <2>1, <2>3, <1>4, <1>2 DEF Done, PinDone, Private, Erased, IInv, TypeOK, JobType
    <2> QED
      BY <1>1, <1>3, <2>1, <2>2, <2>4, AdvanceContinues DEF Private
  <1>5. CASE job[d].kind = "phrase"
    <2>1. /\ Tail(job[d].left) \in PhraseLefts /\ Tail(job[d].left) # <<>>
          /\ Head(Tail(job[d].left)) = "public"
      BY <1>5, <1>2, PhraseShape DEF Fitting
    <2>2. Fitting([job[d] EXCEPT !.left = Tail(job[d].left)])
      BY <1>5, <2>1, <1>2 DEF Fitting, JobType
    <2>3. job'[d] = [job[d] EXCEPT !.left = Tail(job[d].left)]
      BY <2>1, <1>1, <1>2 DEF Advance, IInv, TypeOK
    <2>4. job[d].alone \/ ~torn => Done(d)'
      BY <2>1, <2>3, <1>5, <1>2 DEF Done, PhraseDone, Private, Erased, IInv, TypeOK, JobType
    <2> QED
      BY <1>1, <1>3, <2>1, <2>2, <2>4, AdvanceContinues DEF Private
  <1> QED
    BY <1>4, <1>5, <1>7, <1>2 DEF Changes

LEMMA StoreHolds ==
  ASSUME IInv, NEW d \in Devices, Store(d)
  PROVE  IInv'
  <1>1. AtStep(d, "store") /\ Advance(d)
    BY DEF Store
  <1>2. /\ d \in Actors /\ d # Peer /\ job[d] \in JobType /\ Fitting(job[d]) /\ job[d].k # 0
        /\ Head(job[d].left) = "store" /\ job[d].kind \in Changes
        /\ job[d].alone \/ ~torn => Done(d)
    BY <1>1, AtStepIsChanging DEF Changing
  <1>3. TypeOK'
    <2>1. /\ server' \in [pub : Ids, bundle : Ids, form : {"none", "pin", "phrase"}, hash : Ids]
          /\ server'.bundle = 0 <=> server'.form = "none"
      BY <1>2 DEF Store, IInv, TypeOK, JobType
    <2>2. /\ store' \in [Actors -> Ids] /\ key' \in [Actors -> Ids]
          /\ keyOld' \in [Actors -> BOOLEAN] /\ store'[Peer] = 0 /\ key'[Peer] = 0
      BY <1>2, KeysAssumption DEF Store, IInv, TypeOK, JobType, Ids
    <2> QED
      BY <1>1, <2>1, <2>2, AdvanceTyped DEF Store
  <1>4. CASE job[d].kind = "pin"
    <2>1. /\ Tail(job[d].left) \in PinLefts /\ Tail(job[d].left) # <<>>
          /\ Head(Tail(job[d].left)) = "hash"
      BY <1>4, <1>2, PinShape DEF Fitting
    <2>2. Fitting([job[d] EXCEPT !.left = Tail(job[d].left)])
      BY <1>4, <2>1, <1>2 DEF Fitting, JobType
    <2>3. job'[d] = [job[d] EXCEPT !.left = Tail(job[d].left)]
      BY <2>1, <1>1, <1>2 DEF Advance, IInv, TypeOK
    <2>4. job[d].alone \/ ~torn => Done(d)'
      BY <2>1, <2>3, <1>4, <1>2 DEF Done, PinDone, Store, Erased, IInv, TypeOK, JobType
    <2> QED
      BY <1>1, <1>3, <2>1, <2>2, <2>4, AdvanceContinues DEF Store
  <1>5. CASE job[d].kind = "phrase"
    <2>1. /\ Tail(job[d].left) \in PhraseLefts /\ Tail(job[d].left) # <<>>
          /\ Head(Tail(job[d].left)) = "private"
      BY <1>5, <1>2, PhraseShape DEF Fitting
    <2>2. Fitting([job[d] EXCEPT !.left = Tail(job[d].left)])
      BY <1>5, <2>1, <1>2 DEF Fitting, JobType
    <2>3. job'[d] = [job[d] EXCEPT !.left = Tail(job[d].left)]
      BY <2>1, <1>1, <1>2 DEF Advance, IInv, TypeOK
    <2>4. job[d].alone \/ ~torn => Done(d)'
      BY <2>1, <2>3, <1>5, <1>2 DEF Done, PhraseDone, Store, Erased, IInv, TypeOK, JobType
    <2> QED
      BY <1>1, <1>3, <2>1, <2>2, <2>4, AdvanceContinues DEF Store
  <1>6. job[d].kind # "erase"
    BY <1>2, EraseShape DEF Fitting
  <1> QED
    BY <1>4, <1>5, <1>6, <1>2 DEF Changes

LEMMA HashHolds ==
  ASSUME IInv, NEW d \in Devices, Hash(d)
  PROVE  IInv'
  <1>1. AtStep(d, "hash") /\ Advance(d)
    BY DEF Hash
  <1>2. /\ d \in Actors /\ d # Peer /\ job[d] \in JobType /\ Fitting(job[d]) /\ job[d].k # 0
        /\ Head(job[d].left) = "hash" /\ job[d].kind \in Changes
        /\ job[d].alone \/ ~torn => Done(d)
    BY <1>1, AtStepIsChanging DEF Changing
  <1>3. TypeOK'
    <2>1. /\ server' \in [pub : Ids, bundle : Ids, form : {"none", "pin", "phrase"}, hash : Ids]
          /\ server'.bundle = 0 <=> server'.form = "none"
      BY <1>2 DEF Hash, IInv, TypeOK, JobType
    <2>2. /\ store' \in [Actors -> Ids] /\ key' \in [Actors -> Ids]
          /\ keyOld' \in [Actors -> BOOLEAN] /\ store'[Peer] = 0 /\ key'[Peer] = 0
      BY <1>2, KeysAssumption DEF Hash, IInv, TypeOK, JobType, Ids
    <2> QED
      BY <1>1, <2>1, <2>2, AdvanceTyped DEF Hash
  <1>4. CASE job[d].kind = "pin"
    <2>1. /\ Tail(job[d].left) \in PinLefts /\ Tail(job[d].left) # <<>>
          /\ Head(Tail(job[d].left)) = "open"
      BY <1>4, <1>2, PinShape DEF Fitting
    <2>2. Fitting([job[d] EXCEPT !.left = Tail(job[d].left)])
      BY <1>4, <2>1, <1>2 DEF Fitting, JobType
    <2>3. job'[d] = [job[d] EXCEPT !.left = Tail(job[d].left)]
      BY <2>1, <1>1, <1>2 DEF Advance, IInv, TypeOK
    <2>4. job[d].alone \/ ~torn => Done(d)'
      BY <2>1, <2>3, <1>4, <1>2 DEF Done, PinDone, Hash, Erased, IInv, TypeOK, JobType
    <2> QED
      BY <1>1, <1>3, <2>1, <2>2, <2>4, AdvanceContinues DEF Hash
  <1>5. job[d].kind # "phrase"
    BY <1>2, PhraseShape DEF Fitting
  <1>6. job[d].kind # "erase"
    BY <1>2, EraseShape DEF Fitting
  <1> QED
    BY <1>4, <1>5, <1>6, <1>2 DEF Changes

LEMMA OpenHolds ==
  ASSUME IInv, NEW d \in Devices, Open(d)
  PROVE  IInv'
  <1>1. AtStep(d, "open") /\ Advance(d)
    BY DEF Open
  <1>2. /\ d \in Actors /\ d # Peer /\ job[d] \in JobType /\ Fitting(job[d]) /\ job[d].k # 0
        /\ Head(job[d].left) = "open" /\ job[d].kind \in Changes
        /\ job[d].alone \/ ~torn => Done(d)
    BY <1>1, AtStepIsChanging DEF Changing
  <1>3. TypeOK'
    <2>1. /\ server' \in [pub : Ids, bundle : Ids, form : {"none", "pin", "phrase"}, hash : Ids]
          /\ server'.bundle = 0 <=> server'.form = "none"
      BY <1>2 DEF Open, IInv, TypeOK, JobType
    <2>2. /\ store' \in [Actors -> Ids] /\ key' \in [Actors -> Ids]
          /\ keyOld' \in [Actors -> BOOLEAN] /\ store'[Peer] = 0 /\ key'[Peer] = 0
      BY <1>2, KeysAssumption DEF Open, IInv, TypeOK, JobType, Ids
    <2> QED
      BY <1>1, <2>1, <2>2, AdvanceTyped DEF Open
  <1>4. CASE job[d].kind = "pin"
    <2>1. Tail(job[d].left) = <<>>
      BY <1>4, <1>2, PinShape DEF Fitting
    <2>2. job[d].alone \/ ~torn => PinDone(d)
      BY <1>4, <1>2 DEF Done
    <2>3. job[d].alone \/ ~torn => Halves'
      BY <2>1, <2>2, <1>1, <1>4, <1>2 DEF PinDone, Halves, Open, Advance, IInv, TypeOK
    <2>4. job[d].alone => store'[d] = server'.bundle \/ store'[d] = 0
      BY <2>2, <1>2 DEF PinDone, Open, IInv, TypeOK
    <2>5. \A e \in Devices : keyOld[e] /\ e \in Actors
      BY <1>1, AtStepIsChanging, Underway DEF Actors
    <2>6. \A e \in Devices : ~keyOld'[e] => e = d /\ job[d].alone
      BY <2>5, <1>2 DEF Open, IInv, TypeOK
    <2>7. key'[d] = server'.bundle
      BY <1>2 DEF Open, IInv, TypeOK
    <2> QED
      BY <1>1, <1>3, <2>1, <2>3, <2>4, <2>6, <2>7, AdvanceEnds
  <1>5. job[d].kind # "phrase"
    BY <1>2, PhraseShape DEF Fitting
  <1>6. job[d].kind # "erase"
    BY <1>2, EraseShape DEF Fitting
  <1> QED
    BY <1>4, <1>5, <1>6, <1>2 DEF Changes

LEMMA DeleteHolds ==
  ASSUME IInv, NEW d \in Devices, Delete(d)
  PROVE  IInv'
  <1>1. AtStep(d, "delete") /\ Advance(d)
    BY DEF Delete
  <1>2. /\ d \in Actors /\ d # Peer /\ job[d] \in JobType /\ Fitting(job[d]) /\ job[d].k # 0
        /\ Head(job[d].left) = "delete" /\ job[d].kind \in Changes
        /\ job[d].alone \/ ~torn => Done(d)
    BY <1>1, AtStepIsChanging DEF Changing
  <1>3. TypeOK'
    <2>1. /\ server' \in [pub : Ids, bundle : Ids, form : {"none", "pin", "phrase"}, hash : Ids]
          /\ server'.bundle = 0 <=> server'.form = "none"
      BY <1>2, ZeroIsId DEF Delete, IInv, TypeOK, JobType, Erased
    <2>2. /\ store' \in [Actors -> Ids] /\ key' \in [Actors -> Ids]
          /\ keyOld' \in [Actors -> BOOLEAN] /\ store'[Peer] = 0 /\ key'[Peer] = 0
      BY <1>2, KeysAssumption DEF Delete, IInv, TypeOK, JobType, Ids
    <2> QED
      BY <1>1, <2>1, <2>2, AdvanceTyped DEF Delete
  <1>4. CASE job[d].kind = "erase"
    <2>1. /\ Tail(job[d].left) \in EraseLefts /\ Tail(job[d].left) # <<>>
          /\ Head(Tail(job[d].left)) = "clear"
      BY <1>4, <1>2, EraseShape DEF Fitting
    <2>2. Fitting([job[d] EXCEPT !.left = Tail(job[d].left)])
      BY <1>4, <2>1, <1>2 DEF Fitting, JobType
    <2>3. job'[d] = [job[d] EXCEPT !.left = Tail(job[d].left)]
      BY <2>1, <1>1, <1>2 DEF Advance, IInv, TypeOK
    <2>4. job[d].alone \/ ~torn => Done(d)'
      BY <2>1, <2>3, <1>4, <1>2 DEF Done, EraseDone, Delete, Erased, IInv, TypeOK, JobType
    <2> QED
      BY <1>1, <1>3, <2>1, <2>2, <2>4, AdvanceContinues DEF Delete
  <1>5. job[d].kind # "pin"
    BY <1>2, PinShape DEF Fitting
  <1>6. job[d].kind # "phrase"
    BY <1>2, PhraseShape DEF Fitting
  <1> QED
    BY <1>4, <1>5, <1>6, <1>2 DEF Changes

LEMMA ClearHolds ==
  ASSUME IInv, NEW d \in Devices, Clear(d)
  PROVE  IInv'
  <1>1. AtStep(d, "clear") /\ Advance(d)
    BY DEF Clear
  <1>2. /\ d \in Actors /\ d # Peer /\ job[d] \in JobType /\ Fitting(job[d]) /\ job[d].k # 0
        /\ Head(job[d].left) = "clear" /\ job[d].kind \in Changes
        /\ job[d].alone \/ ~torn => Done(d)
    BY <1>1, AtStepIsChanging DEF Changing
  <1>3. TypeOK'
    <2>1. /\ server' \in [pub : Ids, bundle : Ids, form : {"none", "pin", "phrase"}, hash : Ids]
          /\ server'.bundle = 0 <=> server'.form = "none"
      BY <1>2 DEF Clear, IInv, TypeOK, JobType
    <2>2. /\ store' \in [Actors -> Ids] /\ key' \in [Actors -> Ids]
          /\ keyOld' \in [Actors -> BOOLEAN] /\ store'[Peer] = 0 /\ key'[Peer] = 0
      BY <1>2, KeysAssumption DEF Clear, IInv, TypeOK, JobType, Ids
    <2> QED
      BY <1>1, <2>1, <2>2, AdvanceTyped DEF Clear
  <1>4. CASE job[d].kind = "erase"
    <2>1. Tail(job[d].left) = <<>>
      BY <1>4, <1>2, EraseShape DEF Fitting
    <2>2. job[d].alone \/ ~torn => EraseDone(d)
      BY <1>4, <1>2 DEF Done
    <2>3. job[d].alone \/ ~torn => Halves'
      BY <2>1, <2>2, <1>1, <1>4, <1>2 DEF EraseDone, Halves, Clear, Advance, IInv, TypeOK
    <2>4. job[d].alone => store'[d] = server'.bundle \/ store'[d] = 0
      BY <2>2, <1>2 DEF EraseDone, Clear, IInv, TypeOK
    <2>5. \A e \in Devices : keyOld'[e]
      BY <1>1, AtStepIsChanging, Underway DEF Clear
    <2> QED
      BY <1>1, <1>3, <2>1, <2>3, <2>4, <2>5, AdvanceEnds
  <1>5. job[d].kind # "pin"
    BY <1>2, PinShape DEF Fitting
  <1>6. job[d].kind # "phrase"
    BY <1>2, PhraseShape DEF Fitting
  <1> QED
    BY <1>4, <1>5, <1>6, <1>2 DEF Changes

LEMMA SwallowedTyped ==
  ASSUME IInv, NEW d \in Devices, NEW s, AtStep(d, s), NEW j,
         j = [job[d] EXCEPT !.left = Tail(job[d].left), !.alone = FALSE],
         job' = [job EXCEPT ![d] = j], torn' \in BOOLEAN,
         UNCHANGED <<server, store, key, begun, last, storeOld, keyOld>>
  PROVE  TypeOK'
  <1>1. d \in Actors /\ job[d] \in JobType /\ Tail(job[d].left) \in Seq(Steps)
    BY AtStepIsChanging
  <1>2. j \in JobType
    BY <1>1 DEF JobType
  <1>3. job' \in [Actors -> JobType]
    BY <1>1, <1>2 DEF IInv, TypeOK, JobType
  <1> QED
    BY <1>3 DEF TypeOK, JobType, IInv

LEMMA PrivateSwallowedHolds ==
  ASSUME IInv, NEW d \in Devices, PrivateSwallowed(d)
  PROVE  IInv'
  <1> DEFINE j == [job[d] EXCEPT !.left = Tail(job[d].left), !.alone = FALSE]
  <1>1. AtStep(d, "private") /\ job[d].kind = "phrase"
    BY DEF PrivateSwallowed
  <1>2. /\ d \in Changing /\ d \in Actors /\ job[d] \in JobType /\ Fitting(job[d])
        /\ Head(job[d].left) = "private"
    BY <1>1, AtStepIsChanging
  <1>3. Tail(job[d].left) \in PhraseLefts
    BY <1>1, <1>2, PhraseShape DEF Fitting
  <1>4. job' = [job EXCEPT ![d] = j]
    BY <1>2 DEF PrivateSwallowed, IInv, TypeOK
  <1>5. j.kind = job[d].kind /\ j.k = job[d].k /\ ~j.alone /\ Fitting(j)
    BY <1>1, <1>2, <1>3 DEF Fitting, JobType
  <1>6. TypeOK'
    BY <1>1, <1>4, SwallowedTyped DEF PrivateSwallowed
  <1> HIDE DEF j
  <1> QED
    BY <1>2, <1>4, <1>5, <1>6, Continues DEF PrivateSwallowed

LEMMA StoreSwallowedHolds ==
  ASSUME IInv, NEW d \in Devices, StoreSwallowed(d)
  PROVE  IInv'
  <1> DEFINE j == [job[d] EXCEPT !.left = Tail(job[d].left), !.alone = FALSE]
  <1>1. AtStep(d, "store") /\ job[d].kind = "pin"
    BY DEF StoreSwallowed
  <1>2. /\ d \in Changing /\ d \in Actors /\ job[d] \in JobType /\ Fitting(job[d])
        /\ Head(job[d].left) = "store"
        /\ job[d].alone \/ ~torn => Done(d)
    BY <1>1, AtStepIsChanging
  <1>3. Tail(job[d].left) \in PinLefts /\ Head(Tail(job[d].left)) = "hash"
    BY <1>1, <1>2, PinShape DEF Fitting
  <1>4. job' = [job EXCEPT ![d] = j]
    BY <1>2 DEF StoreSwallowed, IInv, TypeOK
  <1>5. /\ j.kind = "pin" /\ j.k = job[d].k /\ ~j.alone /\ j.left = Tail(job[d].left)
        /\ Fitting(j)
    BY <1>1, <1>2, <1>3 DEF Fitting, JobType
  <1>6. TypeOK'
    <2>1. torn' \in BOOLEAN /\ UNCHANGED <<server, store, key, begun, last, storeOld, keyOld>>
      BY DEF StoreSwallowed, past, IInv, TypeOK
    <2> QED
      BY <1>1, <1>4, <2>1, SwallowedTyped
  <1> HIDE DEF j
  <1>7. ~torn' => Done(d)'
    <2>1. job'[d] = j
      BY <1>2, <1>4 DEF IInv, TypeOK
    <2> QED
      BY <2>1, <1>1, <1>2, <1>3, <1>5 DEF Done, PinDone, StoreSwallowed, past
  <1> QED
    BY <1>1, <1>2, <1>4, <1>5, <1>6, <1>7, Continues DEF StoreSwallowed, past

(* A change that stops: at its beginning it has done nothing.              *)
LEMMA StopsHolds ==
  ASSUME IInv, NEW d \in Changing, Abandon(d),
         UNCHANGED <<server, store, begun, last, storeOld, keyOld>>,
         key' \in [Actors -> Ids], key'[Peer] = 0
  PROVE  IInv'
  <1>1. d \in Devices /\ d \in Actors /\ job[d].kind \in Changes /\ Fitting(job[d])
    BY DEF Changing, Actors, IInv
  <1>2. job' = [job EXCEPT ![d] = NoJob]
    BY DEF Abandon
  <1>3. TypeOK'
    <2>1. job' \in [Actors -> JobType]
      BY <1>2, <1>1, NoJobFits DEF IInv, TypeOK, JobType
    <2>2. torn' \in BOOLEAN
      BY DEF Abandon, IInv, TypeOK
    <2> QED
      BY <2>1, <2>2 DEF IInv, TypeOK, JobType
  <1>4. torn => torn'
    BY DEF Abandon
  <1>5. \A e \in Devices : keyOld'[e] /\ storeOld'[e]
    BY Underway
  <1>6. ~torn' => Halves'
    <2> SUFFICES ASSUME ~torn'  PROVE Halves'
      OBVIOUS
    <2>1. ~torn /\ job[d].left = Program(job[d].kind)
      BY DEF Abandon
    <2>2. Done(d)
      BY <2>1 DEF IInv
    <2>3. Halves
      BY <2>1, <2>2, <1>1, ProgramsFit
      DEF Done, PinDone, PhraseDone, EraseDone, Program, Changes
    <2> QED
      BY <2>3 DEF Halves
  <1> QED
    BY <1>2, <1>3, <1>4, <1>5, <1>6, Ends

LEMMA FailHolds ==
  ASSUME IInv, NEW d \in Devices, Fail(d)
  PROVE  IInv'
  BY StopsHolds DEF Fail, IInv, TypeOK

-----------------------------------------------------------------------------
(* What changes no keys *)

LEMMA Idles ==
  ASSUME IInv, NEW d \in Actors, job[d].kind \notin Changes, TypeOK',
         \A e \in Actors \ {d} : job'[e] = job[e],
         job'[d].kind \in {"none", "wrap", "unlock"},
         job'[d].kind \in {"wrap", "unlock"} /\ job'[d].sure => Changing = {} /\ job'[d].k = server.bundle,
         UNCHANGED <<server, store, torn, last, storeOld>>,
         \A e \in Devices : ~keyOld'[e] =>
           Changing = {} /\ (key'[e] # 0 => key'[e] = server.bundle)
  PROVE  IInv'
  <1>1. \A e \in Actors : e # d => job'[e] = job[e]
    OBVIOUS
  <1>2. Changing' = Changing
    BY <1>1 DEF Changing, Actors, Changes
  <1>3. \A e \in Actors : Fitting(job[e])'
    BY <1>1 DEF IInv, Fitting, Changes
  <1>4. Alone'
    BY <1>1, <1>2 DEF IInv, Alone, Changing, Actors
  <1>5. Fresh'
    BY <1>1, <1>2 DEF IInv, Fresh
  <1>6. job'[Peer].kind \in {"none", "wrap", "unlock"}
    BY <1>1 DEF IInv, Actors
  <1>7. Quiet' => Halves'
    BY <1>2 DEF IInv, Quiet, Halves
  <1>8. ASSUME NEW e \in Changing', job'[e].alone \/ ~torn'  PROVE Done(e)'
    <2>1. e \in Changing /\ job'[e] = job[e]
      BY <1>1, <1>2 DEF Changing, Actors
    <2>2. Done(e)
      BY <2>1, <1>8 DEF IInv
    <2> QED
      BY <2>1, <2>2 DEF Done, PinDone, PhraseDone, EraseDone, Halves
  <1> QED
    BY <1>3, <1>4, <1>5, <1>6, <1>7, <1>8 DEF IInv

LEMMA FetchBundleHolds ==
  ASSUME IInv, NEW d \in Devices, FetchBundle(d)
  PROVE  IInv'
  <1> DEFINE j == [NoJob EXCEPT !.kind = "unlock", !.k = server.bundle, !.sure = Changing = {}]
  <1>1. d \in Actors /\ job[d].kind = "none" /\ job' = [job EXCEPT ![d] = j]
        /\ UNCHANGED <<server, store, key, begun, past>>
    BY DEF FetchBundle, EncryptedKey, Actors
  <1>2. server.bundle \in Ids
    BY DEF IInv, TypeOK
  <1>3. j.kind = "unlock" /\ j.k = server.bundle /\ j \in JobType /\ (j.sure => Changing = {})
    BY <1>2, NoJobFits DEF JobType
  <1> HIDE DEF j
  <1>4. TypeOK'
    <2>1. job' \in [Actors -> JobType]
      BY <1>1, <1>3 DEF IInv, TypeOK, JobType
    <2> QED
      BY <1>1, <2>1 DEF past, IInv, TypeOK, JobType
  <1>5. \A e \in Devices : ~keyOld'[e] =>
          Changing = {} /\ (key'[e] # 0 => key'[e] = server.bundle)
    BY <1>1 DEF IInv, Fresh, past
  <1>6. job[d].kind \notin Changes /\ UNCHANGED <<server, store, torn, last, storeOld>>
    BY <1>1 DEF past, Changes
  <1>7. /\ \A e \in Actors \ {d} : job'[e] = job[e]
        /\ job'[d].kind = "unlock"
        /\ job'[d].sure => Changing = {} /\ job'[d].k = server.bundle
    BY <1>1, <1>3 DEF IInv, TypeOK
  <1> QED
    BY <1>1, <1>4, <1>5, <1>6, <1>7, Idles

LEMMA UnlockHolds ==
  ASSUME IInv, NEW d \in Devices, Unlock(d) \/ UnlockFails(d)
  PROVE  IInv'
  <1>1. d \in Actors /\ d # Peer /\ job[d] \in JobType /\ job[d].kind = "unlock"
    BY KeysAssumption DEF Unlock, UnlockFails, Actors, IInv, TypeOK, JobType
  <1>2. /\ job' = [job EXCEPT ![d] = NoJob]
        /\ UNCHANGED <<server, store, begun, torn, last, storeOld>>
    BY DEF Unlock, UnlockFails, past
  <1>3. \/ UNCHANGED <<key, keyOld>>
        \/ /\ key' = [key EXCEPT ![d] = job[d].k]
           /\ keyOld' = [keyOld EXCEPT ![d] = ~job[d].sure]
    BY DEF Unlock, UnlockFails, past
  <1>4. TypeOK'
    <2>1. job' \in [Actors -> JobType]
      BY <1>2, NoJobFits DEF IInv, TypeOK, JobType
    <2>2. key' \in [Actors -> Ids] /\ keyOld' \in [Actors -> BOOLEAN] /\ key'[Peer] = 0
      <3>1. job[d].k \in Ids /\ (~job[d].sure) \in BOOLEAN
        BY <1>1 DEF JobType
      <3>2. key \in [Actors -> Ids] /\ keyOld \in [Actors -> BOOLEAN] /\ key[Peer] = 0
        BY DEF IInv, TypeOK
      <3>3. key' \in [Actors -> Ids] /\ key'[Peer] = 0
        <4> PICK k \in Ids : k = job[d].k
          BY <3>1
        <4>1. key' = key \/ key' = [key EXCEPT ![d] = k]
          BY <1>3
        <4>2. key' \in [Actors -> Ids]
          BY <3>2, <4>1
        <4> QED
          BY <1>1, <3>2, <4>1, <4>2 DEF Actors
      <3>4. keyOld' \in [Actors -> BOOLEAN]
        <4>1. PICK old \in BOOLEAN : old = ~job[d].sure
          BY <3>1
        <4>2. keyOld' = keyOld \/ keyOld' = [keyOld EXCEPT ![d] = old]
          BY <1>3, <4>1
        <4> QED
          BY <3>2, <4>2
      <3> QED
        BY <3>3, <3>4
    <2> QED
      BY <1>2, <2>1, <2>2 DEF IInv, TypeOK, JobType
  <1>5. job[d].sure => Changing = {} /\ job[d].k = server.bundle
    BY <1>1 DEF IInv, Fresh
  <1>6. \A e \in Devices : ~keyOld'[e] =>
          Changing = {} /\ (key'[e] # 0 => key'[e] = server.bundle)
    BY <1>1, <1>3, <1>5 DEF IInv, Fresh, TypeOK, Actors
  <1>7. job[d].kind \notin Changes
    BY <1>1 DEF Changes
  <1>8. /\ \A e \in Actors \ {d} : job'[e] = job[e]
        /\ job'[d].kind = "none"
    BY <1>1, <1>2, NoJobFits DEF IInv, TypeOK
  <1> QED
    BY <1>1, <1>2, <1>4, <1>6, <1>7, <1>8, Idles

LEMMA CloseHolds ==
  ASSUME IInv, NEW d \in Devices, Close(d)
  PROVE  IInv'
  <1>1. d \in Actors /\ d # Peer
    BY KeysAssumption DEF Actors
  <1>2. key' \in [Actors -> Ids] /\ key'[Peer] = 0
    BY <1>1, ZeroIsId DEF Close, IInv, TypeOK, Actors
  <1>3. CASE d \in Changing
    BY <1>2, <1>3, StopsHolds DEF Close
  <1>4. CASE d \notin Changing
    <2>1. job[d].kind \notin Changes
      BY <1>4 DEF Changing
    <2>2. torn' = torn /\ job' = [job EXCEPT ![d] = NoJob]
      BY <1>4 DEF Close, Abandon, IInv, TypeOK
    <2>3. TypeOK'
      BY <2>2, <1>1, <1>2, NoJobFits DEF Close, IInv, TypeOK, JobType
    <2>4. \A e \in Devices : ~keyOld'[e] =>
            Changing = {} /\ (key'[e] # 0 => key'[e] = server.bundle)
      BY <1>1 DEF Close, IInv, Fresh, TypeOK, Actors
    <2>5. UNCHANGED <<server, store, torn, last, storeOld>>
      BY <2>2 DEF Close
    <2>6. /\ \A e \in Actors \ {d} : job'[e] = job[e]
          /\ job'[d].kind = "none"
      BY <1>1, <2>2, NoJobFits DEF IInv, TypeOK
    <2> QED
      BY <1>1, <2>1, <2>2, <2>3, <2>4, <2>5, <2>6, Idles
  <1> QED
    BY <1>3, <1>4

LEMMA WrapHolds ==
  ASSUME IInv, NEW d \in Actors, Wrap(d)
  PROVE  IInv'
  <1> DEFINE j == [NoJob EXCEPT !.kind = "wrap", !.k = PublicKey(d),
       !.sure = ~torn /\ Changing = {} /\ (storeOld[d] => store[d] = 0) /\ last # "none"]
  <1>1. job[d].kind = "none" /\ job' = [job EXCEPT ![d] = j]
    BY DEF Wrap
  <1>2. PublicKey(d) \in Ids
    BY DEF PublicKey, IInv, TypeOK
  <1>3. /\ j.kind = "wrap" /\ j.k = PublicKey(d) /\ j \in JobType
        /\ j.sure => ~torn /\ Changing = {} /\ (storeOld[d] => store[d] = 0)
    BY <1>2, NoJobFits DEF JobType
  <1> HIDE DEF j
  <1>4. TypeOK'
    <2>1. job' \in [Actors -> JobType]
      BY <1>1, <1>3 DEF IInv, TypeOK, JobType
    <2> QED
      BY <2>1 DEF Wrap, past, IInv, TypeOK, JobType
  <1>5. j.sure => j.k = server.bundle
    <2> SUFFICES ASSUME j.sure  PROVE PublicKey(d) = server.bundle
      BY <1>3
    <2>1. server.pub = server.bundle
      BY <1>3 DEF IInv, Quiet, Halves
    <2>2. store[d] # 0 => store[d] = server.bundle
      BY <1>3 DEF IInv, Fresh, TypeOK, Actors
    <2> QED
      BY <2>1, <2>2 DEF PublicKey
  <1>6. \A e \in Devices : ~keyOld'[e] =>
          Changing = {} /\ (key'[e] # 0 => key'[e] = server.bundle)
    BY DEF IInv, Fresh, Wrap, past
  <1>7. job[d].kind \notin Changes /\ UNCHANGED <<server, store, torn, last, storeOld>>
    BY <1>1 DEF Wrap, past, Changes
  <1>8. /\ \A e \in Actors \ {d} : job'[e] = job[e]
        /\ job'[d].kind = "wrap"
        /\ job'[d].sure => Changing = {} /\ job'[d].k = server.bundle
    BY <1>1, <1>3, <1>5 DEF IInv, TypeOK
  <1> QED
    BY <1>1, <1>4, <1>6, <1>7, <1>8, Idles

LEMMA KeepHolds ==
  ASSUME IInv, NEW d \in Actors, Keep(d)
  PROVE  IInv'
  <1>1. job[d].kind = "wrap" /\ job' = [job EXCEPT ![d] = NoJob]
    BY DEF Keep
  <1>2. TypeOK'
    <2>1. job' \in [Actors -> JobType]
      BY <1>1, NoJobFits DEF IInv, TypeOK, JobType
    <2> QED
      BY <2>1 DEF Keep, past, IInv, TypeOK, JobType
  <1>3. \A e \in Devices : ~keyOld'[e] =>
          Changing = {} /\ (key'[e] # 0 => key'[e] = server.bundle)
    BY DEF IInv, Fresh, Keep, past
  <1>4. job[d].kind \notin Changes /\ UNCHANGED <<server, store, torn, last, storeOld>>
    BY <1>1 DEF Keep, past, Changes
  <1>5. /\ \A e \in Actors \ {d} : job'[e] = job[e]
        /\ job'[d].kind = "none"
    BY <1>1, NoJobFits DEF IInv, TypeOK
  <1> QED
    BY <1>1, <1>2, <1>3, <1>4, <1>5, Idles

LEMMA BeginHolds ==
  ASSUME IInv, NEW d \in Devices, NEW kind \in Changes, Begin(d, kind)
  PROVE  IInv'
  <1> DEFINE mine == [NoJob EXCEPT !.kind = kind, !.left = Program(kind), !.k = begun + 1,
                                   !.alone = Changing = {}]
  <1>1. /\ job[d].kind = "none" /\ begun < MaxChanges /\ begun' = begun + 1
        /\ job' = [e \in Actors |-> IF e = d THEN mine
                                    ELSE [job[e] EXCEPT !.alone = FALSE, !.sure = FALSE]]
        /\ torn' = (torn \/ Changing # {})
    BY DEF Begin
  <1>2. d \in Actors /\ d # Peer
    BY KeysAssumption DEF Actors
  <1>3. begun + 1 \in Ids /\ begun + 1 # 0
    <2>1. begun \in Ids /\ begun < MaxChanges
      BY DEF Begin, IInv, TypeOK
    <2> QED
      BY <2>1, KeysAssumption DEF Ids
  <1>4. /\ Fitting([NoJob EXCEPT !.kind = kind, !.left = Program(kind), !.k = begun + 1,
                                 !.alone = Changing = {}])
        /\ Program(kind) \in Seq(Steps)
    BY <1>3, ProgramsFit, PinShape, PhraseShape, EraseShape
    DEF Fitting, Program, Changes, NoJob
  <1>5. /\ mine \in JobType /\ mine.kind = kind /\ mine.left = Program(kind)
        /\ mine.alone <=> Changing = {}
    BY <1>3, <1>4, NoJobFits DEF JobType, NoJob
  <1>6. Fitting(mine)
    BY <1>4
  <1> HIDE DEF mine
  <1>7. job'[d] = mine
    BY <1>1, <1>2
  <1>8. \A e \in Actors : job[e] \in JobType
    BY DEF IInv, TypeOK, JobType
  <1>9. \A e \in Actors \ {d} :
          /\ job'[e] \in JobType /\ job'[e].kind = job[e].kind /\ job'[e].left = job[e].left
          /\ job'[e].k = job[e].k /\ ~job'[e].alone /\ ~job'[e].sure
    BY <1>1, <1>8 DEF JobType
  <1>10. TypeOK'
    <2>1. job' \in [Actors -> JobType]
      BY <1>1, <1>5, <1>7, <1>9
    <2>2. torn' \in BOOLEAN /\ begun' \in Ids
      BY <1>1, <1>3 DEF IInv, TypeOK
    <2>3. storeOld' \in [Actors -> BOOLEAN] /\ keyOld' \in [Actors -> BOOLEAN]
      BY DEF Begin
    <2> QED
      BY <2>1, <2>2, <2>3 DEF Begin, IInv, TypeOK, JobType
  <1>11. \A e \in Actors : Fitting(job[e])'
    BY <1>6, <1>7, <1>9 DEF IInv, Fitting
  <1>12. Changing' = Changing \cup {d}
    BY <1>5, <1>7, <1>9, <1>2 DEF Changing, Actors
  <1>13. Alone'
    <2>1. ASSUME NEW c \in Changing', NEW e \in Changing', job'[c].alone \/ ~torn'
          PROVE  Changing = {}
      BY <2>1, <1>1, <1>5, <1>7, <1>9 DEF Changing, Actors
    <2> QED
      BY <2>1, <1>12 DEF Alone
  <1>14. \A e \in Devices : keyOld'[e] /\ storeOld'[e]
    BY KeysAssumption DEF Begin, Actors
  <1>15. \A e \in Actors : ~(job'[e].kind \in {"wrap", "unlock"} /\ job'[e].sure)
    BY <1>5, <1>7, <1>9 DEF Changes
  <1>16. job'[Peer].kind \in {"none", "wrap", "unlock"}
    BY <1>2, <1>9 DEF IInv, Actors
  <1>17. ASSUME NEW e \in Changing', job'[e].alone \/ ~torn'  PROVE Done(e)'
    <2>1. e = d /\ Changing = {}
      BY <1>17, <1>1, <1>5, <1>7, <1>9, <1>12 DEF Changing, Actors
    <2>2. ~torn' => Halves'
      BY <2>1, <1>1 DEF IInv, Quiet, Halves, Begin
    <2> QED
      BY <2>1, <2>2, <1>5, <1>7, ProgramsFit
      DEF Done, PinDone, PhraseDone, EraseDone, Program, Changes
  <1> QED
    BY <1>10, <1>11, <1>12, <1>13, <1>14, <1>15, <1>16, <1>17 DEF IInv, Fresh, Quiet

-----------------------------------------------------------------------------
(* The invariant and what follows from it *)

LEMMA InitHolds == Init => IInv
  <1> SUFFICES ASSUME Init  PROVE IInv
    OBVIOUS
  <1>1. \A d \in Actors : job[d] = NoJob
    BY DEF Init
  <1>2. TypeOK
    BY ZeroIsId, NoJobFits DEF Init, TypeOK, NoKeys, JobType, Actors
  <1>3. Changing = {}
    BY <1>1, NoJobFits DEF Changing, Actors, Changes
  <1>4. Fresh
    BY <1>1, <1>3, NoJobFits DEF Fresh, Init, Actors
  <1> QED
    BY <1>1, <1>2, <1>3, <1>4, NoJobFits DEF IInv, Alone, Init, Halves, NoKeys, Actors

LEMMA NextHolds == IInv /\ [Next]_vars => IInv'
  <1> SUFFICES ASSUME IInv, [Next]_vars  PROVE IInv'
    OBVIOUS
  <1>1. CASE UNCHANGED vars
    BY <1>1 DEF vars, past, IInv, TypeOK, Fitting, Alone, Fresh, Quiet, Halves, Changing,
                Done, PinDone, PhraseDone, EraseDone
  <1>2. ASSUME NEW d \in Devices,
               \/ Register(d) \/ SetUpPin(d) \/ ChangePin(d)
               \/ SetUpPhrase(d) \/ Onboard(d) \/ Regenerate(d)
        PROVE  IInv'
    BY <1>2, BeginHolds
    DEF Register, SetUpPin, ChangePin, SetUpPhrase, Onboard, Regenerate, Changes
  <1>3. ASSUME NEW d \in Devices, Step(d)  PROVE IInv'
    BY <1>3, PublicHolds, PrivateHolds, PrivateSwallowedHolds, StoreHolds, StoreSwallowedHolds,
       HashHolds, OpenHolds, DeleteHolds, ClearHolds, FailHolds DEF Step
  <1>4. ASSUME NEW d \in Devices,
               FetchBundle(d) \/ Unlock(d) \/ UnlockFails(d) \/ Close(d)
        PROVE  IInv'
    BY <1>4, FetchBundleHolds, UnlockHolds, CloseHolds
  <1>5. ASSUME NEW d \in Actors, Wrap(d) \/ Keep(d)  PROVE IInv'
    BY <1>5, WrapHolds, KeepHolds
  <1> QED
    BY <1>1, <1>2, <1>3, <1>4, <1>5 DEF Next

\* What a change has done so far stays in place while it is alone or nothing is
\* torn, and what a device remembers from the last change is the server's
\* (generateAndStoreWithPin, setupKeys, "Rigenera chiavi").
THEOREM KeysAreSound == Spec => []IInv
  BY InitHolds, NextHolds, PTL DEF Spec

\* Every variable keeps its type for any number of devices and changes; there is
\* a bundle exactly when there is a form of it (reset_user_keys, update_keys).
THEOREM TypesHold == Spec => []TypeOK
  BY KeysAreSound, PTL DEF IInv

\* Between changes the public key, the bundle and the hash of the PIN are of one
\* pair, unless a change stopped half-way or ran into another.
THEOREM HalvesAlwaysMatch == Spec => []HalvesMatch
  <1>1. IInv => HalvesMatch
    BY DEF IInv, Halves, HalvesMatch
  <1> QED
    BY <1>1, KeysAreSound, PTL

\* What is wrapped between changes opens with the pair on the server, and with the
\* one in memory if that was fetched since the last change; except on a device whose
\* IndexedDB still has the key of before another device's change, of which nothing is
\* said (getPublicKeyPem, wrapped and stored in two requests).
THEOREM UploadsAlwaysOpen == Spec => []UploadsOpen
  <1>1. IInv => UploadsOpen
    BY DEF IInv, Fresh, TypeOK, Actors, UploadsOpen, Opens
  <1> QED
    BY <1>1, KeysAreSound, PTL

\* An unlocked device holds the pair the server has, unless the keys began to
\* change after the bundle it opened was fetched (handlePinUnlock, unlockWithPin).
THEOREM SessionIsAlwaysCurrent == Spec => []SessionIsCurrent
  <1>1. IInv => SessionIsCurrent
    BY DEF IInv, Fresh, SessionIsCurrent
  <1> QED
    BY <1>1, KeysAreSound, PTL
=============================================================================
