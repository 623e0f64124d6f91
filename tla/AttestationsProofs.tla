------------------------- MODULE AttestationsProofs -------------------------
(***************************************************************************)
(* No signature is lost, for any number of artifacts, logs, readers and    *)
(* keys, although every reader writes back the whole of what it read.      *)
(* The reason is that the readers of one daemon sign with one key: a copy  *)
(* is what is stored, or one of the two is the other with that signature.  *)
(***************************************************************************)
EXTENDS AttestationsProperties, TLAPS

Signers == Keys \cup WorkerKeys

SignedByWorker(signatures) == \E w \in WorkerKeys : HasSignature(signatures, w)

WellSigned(signatures) ==
  /\ signatures \in Seq(Signers)
  /\ IsInjective(signatures)
  /\ SignedByWorker(signatures)

DaemonTypeOK == daemon \in [key : Keys \cup {None}, signs : BOOLEAN]

LogsInStep ==
  /\ stored \in [Logs -> Seq(Signers) \cup {None}]
  /\ logOf \in [Artifacts -> Logs \cup {None}]
  /\ \A l \in Logs : stored[l] # None => WellSigned(stored[l])
  /\ \A a \in Artifacts : logOf[a] # None => stored[logOf[a]] # None

(* s is what is stored, c the copy of a reader, k the key of the daemon.   *)
Unread(c, s, k) == ~HasSignature(c, k) /\ s = Append(c, k)
Unwritten(c, s, k) == ~HasSignature(s, k) /\ c = Append(s, k)

CopyInStep(state, s) ==
  \/ /\ state.pc = "check"
     /\ state.copy = s \/ (daemon.signs /\ Unread(state.copy, s, daemon.key))
  \/ /\ state.pc = "write"
     /\ daemon.signs
     /\ \/ state.copy = s /\ HasSignature(s, daemon.key)
        \/ Unwritten(state.copy, s, daemon.key)
  \/ /\ state.pc = "answer"
     /\ state.copy = s
     /\ daemon.signs => HasSignature(s, daemon.key)

ReaderRow ==
  [pc : {"idle", "check", "write", "answer"}, artifact : Artifacts \cup {None},
   copy : Seq(Signers), signed : BOOLEAN]

ReadersInStep ==
  /\ reader \in [Readers -> ReaderRow]
  /\ \A r \in Readers : reader[r].pc # "idle" =>
       /\ Up
       /\ reader[r].artifact \in Artifacts
       /\ logOf[reader[r].artifact] # None
       /\ CopyInStep(reader[r], stored[logOf[reader[r].artifact]])

AnswerInStep ==
  answer # NoAnswer =>
    /\ answer.artifact \in Artifacts
    /\ logOf[answer.artifact] # None
    /\ answer.copy \in Seq(Signers)
    /\ IsPrefix(answer.copy, stored[logOf[answer.artifact]])
    /\ answer.key # None => HasSignature(answer.copy, answer.key) /\ SignedByWorker(answer.copy)

AttestationsInv == DaemonTypeOK /\ LogsInStep /\ ReadersInStep /\ AnswerInStep

-----------------------------------------------------------------------------
(* Sequences of signatures *)

LEMMA PrefixOfItself ==
  ASSUME NEW S, NEW s \in Seq(S)
  PROVE  IsPrefix(s, s)
BY DEF IsPrefix

LEMMA PrefixOfSigned ==
  ASSUME NEW S, NEW s \in Seq(S), NEW t \in Seq(S), NEW k \in S, IsPrefix(s, t)
  PROVE  IsPrefix(s, Append(t, k))
<1>1. Len(Append(t, k)) = Len(t) + 1 /\ \A i \in 1 .. Len(t) : Append(t, k)[i] = t[i]
  OBVIOUS
<1>2. SubSeq(Append(t, k), 1, Len(s)) = SubSeq(t, 1, Len(s))
  BY <1>1 DEF IsPrefix
<1>3. QED  BY <1>1, <1>2 DEF IsPrefix

LEMMA SignatureIsLast ==
  ASSUME NEW S, NEW s \in Seq(S), NEW k \in S
  PROVE  /\ Append(s, k) \in Seq(S)
         /\ Last(Append(s, k)) = k
         /\ HasSignature(Append(s, k), k)
         /\ \A j : HasSignature(s, j) => HasSignature(Append(s, k), j)
         /\ ~HasSignature(s, k) /\ IsInjective(s) => IsInjective(Append(s, k))
<1> DEFINE t == Append(s, k)
<1>1. /\ t \in Seq(S) /\ Len(t) = Len(s) + 1 /\ DOMAIN t = 1 .. Len(s) + 1
      /\ t[Len(s) + 1] = k /\ \A i \in 1 .. Len(s) : t[i] = s[i]
  OBVIOUS
<1>2. DOMAIN s = 1 .. Len(s) /\ Len(s) \in Nat
  OBVIOUS
<1> HIDE DEF t
<1>3. Last(t) = k
  BY <1>1 DEF Last
<1>4. HasSignature(t, k)
  BY <1>1, <1>2 DEF HasSignature, ToSet
<1>5. ASSUME NEW j, HasSignature(s, j) PROVE HasSignature(t, j)
  BY <1>1, <1>2, <1>5 DEF HasSignature, ToSet
<1>6. ASSUME ~HasSignature(s, k), IsInjective(s) PROVE IsInjective(t)
  BY <1>1, <1>2, <1>6 DEF HasSignature, ToSet, IsInjective
<1>7. QED  BY <1>1, <1>3, <1>4, <1>5, <1>6 DEF t

-----------------------------------------------------------------------------
(* The invariant *)

LEMMA InitHolds == AttestationsInit => AttestationsInv
BY AttestationsAssumption
DEF AttestationsInit, AttestationsInv, DaemonTypeOK, LogsInStep, ReadersInStep, AnswerInStep,
    ReaderRow, Down, IdleReader, NoAnswer

(* A copy of a reader is written over what it is but for one signature.    *)
LEMMA WritesSignature ==
  ASSUME AttestationsInv, NEW r \in Readers, WriteBack(r),
         NEW l, l = logOf[reader[r].artifact]
  PROVE  /\ l \in Logs
         /\ stored[l] # None
         /\ WellSigned(stored[l])
         /\ daemon.signs
         /\ daemon.key \in Keys
         /\ \/ stored' = stored /\ HasSignature(stored[l], daemon.key)
            \/ /\ ~HasSignature(stored[l], daemon.key)
               /\ stored' = [stored EXCEPT ![l] = Append(stored[l], daemon.key)]
<1>1. /\ reader[r].pc = "write"
      /\ stored' = [stored EXCEPT ![l] = reader[r].copy]
  BY DEF WriteBack
<1>2. /\ Up
      /\ reader[r].artifact \in Artifacts
      /\ l # None
      /\ CopyInStep(reader[r], stored[l])
  BY <1>1 DEF AttestationsInv, ReadersInStep
<1>3. l \in Logs /\ stored[l] # None /\ WellSigned(stored[l])
  BY <1>2 DEF AttestationsInv, LogsInStep
<1>4. daemon.key \in Keys
  BY <1>2 DEF Up, AttestationsInv, DaemonTypeOK
<1>5. /\ daemon.signs
      /\ \/ reader[r].copy = stored[l] /\ HasSignature(stored[l], daemon.key)
         \/ Unwritten(reader[r].copy, stored[l], daemon.key)
  BY <1>1, <1>2 DEF CopyInStep
<1>6. CASE reader[r].copy = stored[l] /\ HasSignature(stored[l], daemon.key)
  <2>1. stored' = stored
    BY <1>1, <1>3, <1>6 DEF AttestationsInv, LogsInStep
  <2>2. QED  BY <1>3, <1>4, <1>5, <1>6, <2>1
<1>7. CASE Unwritten(reader[r].copy, stored[l], daemon.key)
  BY <1>1, <1>3, <1>4, <1>5, <1>7 DEF Unwritten
<1>8. QED  BY <1>5, <1>6, <1>7

(* What is signed once more is still well signed.                          *)
LEMMA SignedOnceMore ==
  ASSUME NEW s, WellSigned(s), NEW k \in Keys, ~HasSignature(s, k)
  PROVE  WellSigned(Append(s, k)) /\ Append(s, k) # None /\ IsPrefix(s, Append(s, k))
<1>1. s \in Seq(Signers) /\ k \in Signers
  BY DEF WellSigned, Signers
<1>2. Append(s, k) \in Seq(Signers) /\ IsInjective(Append(s, k)) /\ SignedByWorker(Append(s, k))
  BY <1>1, SignatureIsLast DEF WellSigned, SignedByWorker
<1>3. IsPrefix(s, Append(s, k))
  BY <1>1, PrefixOfItself, PrefixOfSigned
<1>4. QED  BY <1>2, <1>3, AttestationsAssumption DEF WellSigned, Signers

LEMMA LogsStayInStep ==
  ASSUME AttestationsInv, [AttestationsNext]_attestationVars
  PROVE  LogsInStep'
<1> USE DEF AttestationsInv
<1>1. CASE UNCHANGED <<stored, logOf>>
  BY <1>1 DEF LogsInStep
<1>2. ASSUME NEW artifacts \in SUBSET Artifacts, NEW l \in Logs, NEW worker \in WorkerKeys,
             StoreAttestation(artifacts, l, worker)
      PROVE  LogsInStep'
  <2>1. stored' = [stored EXCEPT ![l] = <<worker>>]
    BY <1>2 DEF StoreAttestation
  <2>2. WellSigned(<<worker>>) /\ <<worker>> # None
    <3>1. <<worker>> \in Seq(Signers) /\ IsInjective(<<worker>>)
      BY DEF Signers, IsInjective
    <3>2. HasSignature(<<worker>>, worker)
      BY DEF HasSignature, ToSet
    <3>3. QED  BY <3>1, <3>2, AttestationsAssumption DEF WellSigned, SignedByWorker, Signers
  <2>3. stored' \in [Logs -> Seq(Signers) \cup {None}]
    BY <2>1, <2>2 DEF LogsInStep, WellSigned
  <2>4. \A m \in Logs : stored'[m] # None => WellSigned(stored'[m])
    BY <2>1, <2>2 DEF LogsInStep
  <2>5. logOf' \in [Artifacts -> Logs \cup {None}]
    BY <1>2 DEF StoreAttestation, LogsInStep
  <2>6. ASSUME NEW a \in Artifacts, logOf'[a] # None PROVE stored'[logOf'[a]] # None
    <3>1. logOf'[a] = l \/ logOf'[a] = logOf[a]
      BY <1>2 DEF StoreAttestation
    <3>2. logOf'[a] \in Logs
      BY <2>5, <2>6
    <3>3. QED  BY <2>1, <2>2, <2>6, <3>1, <3>2 DEF LogsInStep
  <2>7. QED  BY <2>3, <2>4, <2>5, <2>6 DEF LogsInStep, WellSigned, SignedByWorker, HasSignature
<1>3. ASSUME NEW r \in Readers, WriteBack(r) PROVE LogsInStep'
  <2> DEFINE l == logOf[reader[r].artifact]
  <2>1. /\ l \in Logs /\ WellSigned(stored[l]) /\ daemon.key \in Keys
        /\ \/ stored' = stored
           \/ /\ ~HasSignature(stored[l], daemon.key)
              /\ stored' = [stored EXCEPT ![l] = Append(stored[l], daemon.key)]
    BY <1>3, WritesSignature
  <2>2. logOf' = logOf
    BY <1>3 DEF WriteBack
  <2> HIDE DEF l
  <2>3. CASE stored' = stored
    BY <2>2, <2>3 DEF LogsInStep
  <2>4. CASE /\ ~HasSignature(stored[l], daemon.key)
             /\ stored' = [stored EXCEPT ![l] = Append(stored[l], daemon.key)]
    <3> DEFINE signed == Append(stored[l], daemon.key)
    <3>1. WellSigned(signed) /\ signed # None
      BY <2>1, <2>4, SignedOnceMore
    <3>2. stored' = [stored EXCEPT ![l] = signed]
      BY <2>4
    <3> HIDE DEF signed
    <3>3. QED
      BY <2>1, <2>2, <3>1, <3>2 DEF LogsInStep, WellSigned, SignedByWorker, HasSignature
  <2>5. QED  BY <2>1, <2>3, <2>4
<1>4. CASE \E artifacts \in SUBSET Artifacts \ {{}}, l \in Logs, worker \in WorkerKeys :
             StoreAttestation(artifacts, l, worker)
  BY <1>2, <1>4
<1>5. CASE \E r \in Readers : WriteBack(r)
  BY <1>3, <1>5
<1>6. QED
  BY <1>1, <1>4, <1>5
  DEF AttestationsNext, attestationVars, StartDaemon, StopDaemon, RemoveKey, AnswerUnsigned,
      ReaderStep, ReadAttestation, SignIfNecessary, Answer, AbandonRead

(* What a step may do to a row that is there: it stays, or the daemon that *)
(* runs puts its signature on it.                                          *)
SignedBy(l) ==
  /\ Up /\ daemon.signs
  /\ ~HasSignature(stored[l], daemon.key)
  /\ stored'[l] = Append(stored[l], daemon.key)

LEMMA RowsAreSigned ==
  ASSUME AttestationsInv, [AttestationsNext]_attestationVars
  PROVE  /\ \A l \in Logs : stored[l] # None =>
              stored'[l] = stored[l] \/ (SignedBy(l) /\ daemon' = daemon)
         /\ \A a \in Artifacts : logOf[a] # None => logOf'[a] = logOf[a]
<1> USE DEF AttestationsInv
<1>1. CASE UNCHANGED <<stored, logOf>>
  BY <1>1
<1>2. CASE \E artifacts \in SUBSET Artifacts \ {{}}, l \in Logs, worker \in WorkerKeys :
             StoreAttestation(artifacts, l, worker)
  BY <1>2 DEF StoreAttestation, LogsInStep
<1>3. ASSUME NEW r \in Readers, WriteBack(r), NEW l \in Logs, stored[l] # None
      PROVE  stored'[l] = stored[l] \/ (SignedBy(l) /\ daemon' = daemon)
  <2> DEFINE m == logOf[reader[r].artifact]
  <2>1. /\ m \in Logs /\ daemon.signs /\ daemon.key \in Keys
        /\ \/ stored' = stored
           \/ /\ ~HasSignature(stored[m], daemon.key)
              /\ stored' = [stored EXCEPT ![m] = Append(stored[m], daemon.key)]
    BY <1>3, WritesSignature
  <2>2. Up /\ daemon' = daemon
    BY <1>3, <2>1, AttestationsAssumption DEF Up, WriteBack
  <2> HIDE DEF m
  <2>3. QED  BY <2>1, <2>2 DEF SignedBy, LogsInStep
<1>4. CASE \E r \in Readers : WriteBack(r)
  BY <1>3, <1>4 DEF WriteBack
<1>5. QED
  BY <1>1, <1>2, <1>4
  DEF AttestationsNext, attestationVars, StartDaemon, StopDaemon, RemoveKey, AnswerUnsigned,
      ReaderStep, ReadAttestation, SignIfNecessary, Answer, AbandonRead

LEMMA SignedRow ==
  ASSUME AttestationsInv, NEW l \in Logs, stored[l] # None,
         stored'[l] = stored[l] \/ SignedBy(l)
  PROVE  /\ stored[l] \in Seq(Signers)
         /\ stored'[l] \in Seq(Signers)
         /\ IsPrefix(stored[l], stored'[l])
         /\ \A s \in Seq(Signers) : IsPrefix(s, stored[l]) => IsPrefix(s, stored'[l])
         /\ stored'[l] # stored[l] => Last(stored'[l]) = daemon.key
         /\ SignedBy(l) => HasSignature(stored'[l], daemon.key)
<1>1. stored[l] \in Seq(Signers)
  BY DEF AttestationsInv, LogsInStep, WellSigned
<1>2. CASE stored'[l] = stored[l]
  BY <1>1, <1>2, PrefixOfItself, SignatureIsLast DEF SignedBy, HasSignature
<1>3. CASE SignedBy(l)
  <2>1. daemon.key \in Signers /\ stored'[l] = Append(stored[l], daemon.key)
    BY <1>3 DEF SignedBy, Up, AttestationsInv, DaemonTypeOK, Signers
  <2>2. QED
    BY <1>1, <1>3, <2>1, PrefixOfItself, PrefixOfSigned, SignatureIsLast
<1>4. QED  BY <1>2, <1>3

(* A reader that does nothing stays in step with the row that it read.     *)
LEMMA CopiesStayInStep ==
  ASSUME AttestationsInv, NEW state \in ReaderRow, NEW l \in Logs, stored[l] # None,
         CopyInStep(state, stored[l]), daemon' = daemon,
         stored'[l] = stored[l] \/ SignedBy(l)
  PROVE  CopyInStep(state, stored[l])'
<1>1. CASE stored'[l] = stored[l]
  BY <1>1 DEF CopyInStep, Unread, Unwritten, HasSignature
<1>2. CASE SignedBy(l)
  <2>1. HasSignature(stored'[l], daemon.key)
    BY <1>2, SignedRow
  <2>2. daemon.key \in Signers /\ state.copy \in Seq(Signers)
    BY <1>2 DEF SignedBy, Up, AttestationsInv, DaemonTypeOK, Signers, ReaderRow
  <2>3. ~Unread(state.copy, stored[l], daemon.key)
    <3>1. HasSignature(Append(state.copy, daemon.key), daemon.key)
      BY <2>2, SignatureIsLast
    <3>2. QED  BY <1>2, <3>1 DEF SignedBy, Unread
  <2>4. CASE state.pc = "check" /\ state.copy = stored[l]
    BY <1>2, <2>4 DEF SignedBy, CopyInStep, Unread, HasSignature
  <2>5. CASE state.pc = "write" /\ Unwritten(state.copy, stored[l], daemon.key)
    BY <1>2, <2>1, <2>5 DEF SignedBy, CopyInStep, Unwritten, HasSignature
  <2>6. QED
    BY <1>2, <2>3, <2>4, <2>5 DEF SignedBy, CopyInStep
<1>3. QED  BY <1>1, <1>2

LEMMA ReadersStayInStep ==
  ASSUME AttestationsInv, [AttestationsNext]_attestationVars
  PROVE  ReadersInStep'
<1> USE DEF AttestationsInv
<1> DEFINE Row(r) == logOf[reader[r].artifact]
           InStep(r) == /\ Up
                        /\ reader[r].artifact \in Artifacts
                        /\ Row(r) # None
                        /\ CopyInStep(reader[r], stored[Row(r)])
(* Readers that the step is not about. *)
<1>1. ASSUME NEW r \in Readers, reader[r].pc # "idle", reader'[r] = reader[r], daemon' = daemon
      PROVE  InStep(r)'
  <2>1. InStep(r) /\ reader[r] \in ReaderRow
    BY <1>1 DEF ReadersInStep
  <2>2. PICK l \in Logs : l = Row(r) /\ stored[l] # None
    BY <2>1 DEF LogsInStep
  <2>3. PICK state \in ReaderRow : state = reader[r] /\ state = reader'[r]
    BY <1>1, <2>1
  <2>4. (stored'[l] = stored[l] \/ SignedBy(l)) /\ logOf'[state.artifact] = l
    BY <2>1, <2>2, <2>3, RowsAreSigned
  <2>5. CopyInStep(state, stored[l])
    BY <2>1, <2>2, <2>3
  <2>6. CopyInStep(state, stored[l])'
    BY <1>1, <2>2, <2>4, <2>5, CopiesStayInStep
  <2>7. QED  BY <1>1, <2>1, <2>2, <2>3, <2>4, <2>6 DEF Up
(* Steps that are not a reader's. *)
<1>2. CASE UNCHANGED <<reader, daemon>>
  BY <1>1, <1>2 DEF ReadersInStep
<1>3. CASE StopDaemon
  BY <1>3 DEF StopDaemon, ReadersInStep, IdleReader, ReaderRow
<1>4. ASSUME NEW key \in Keys, NEW signs \in BOOLEAN, StartDaemon(key, signs)
      PROVE  ReadersInStep'
  BY <1>4 DEF StartDaemon, ReadersInStep
(* Steps of a reader: the others stay as they are. *)
<1>5. ASSUME NEW r \in Readers, NEW state \in ReaderRow, Proceed(r, state), daemon' = daemon,
             state.pc # "idle" => InStep(r)'
      PROVE  ReadersInStep'
  <2>1. /\ reader' \in [Readers -> ReaderRow]
        /\ reader'[r] = state
        /\ \A s \in Readers \ {r} : reader'[s] = reader[s]
    BY <1>5 DEF Proceed, ReadersInStep
  <2>2. QED  BY <1>1, <1>5, <2>1 DEF ReadersInStep
<1>6. ASSUME NEW r \in Readers, NEW a \in Artifacts, ReadAttestation(r, a) PROVE ReadersInStep'
  <2> DEFINE state == [pc |-> "check", artifact |-> a, copy |-> stored[logOf[a]], signed |-> FALSE]
  <2>1. Proceed(r, state) /\ UNCHANGED <<stored, logOf, daemon>> /\ Up /\ logOf[a] # None
    BY <1>6 DEF ReadAttestation
  <2>2. stored[logOf[a]] \in Seq(Signers)
    BY <2>1 DEF LogsInStep, WellSigned
  <2>3. reader'[r] = state /\ state \in ReaderRow
    BY <2>1, <2>2 DEF Proceed, ReadersInStep, ReaderRow
  <2>4. InStep(r)'
    BY <2>1, <2>2, <2>3 DEF CopyInStep, Up
  <2> HIDE DEF state
  <2>5. QED  BY <1>5, <2>1, <2>3, <2>4
<1>7. ASSUME NEW r \in Readers, SignIfNecessary(r) PROVE ReadersInStep'
  <2> DEFINE written  == [reader[r] EXCEPT !.pc = "write", !.signed = TRUE,
                                           !.copy = Sign(@, daemon.key)]
             answered == [reader[r] EXCEPT !.pc = "answer"]
             new == IF Necessary(reader[r].copy) THEN written ELSE answered
  <2>1. /\ reader[r] \in ReaderRow /\ reader[r].pc = "check"
        /\ InStep(r) /\ Proceed(r, new) /\ UNCHANGED <<stored, logOf, daemon>>
    BY <1>7 DEF SignIfNecessary, ReadersInStep
  <2>2. /\ daemon.key \in Signers /\ daemon.signs \in BOOLEAN
        /\ \/ reader[r].copy = stored[Row(r)]
           \/ (daemon.signs /\ Unread(reader[r].copy, stored[Row(r)], daemon.key))
    BY <2>1 DEF Up, DaemonTypeOK, Signers, CopyInStep
  <2>3. Append(reader[r].copy, daemon.key) \in Seq(Signers)
    BY <2>1, <2>2 DEF ReaderRow
  <2>4. /\ written \in ReaderRow
        /\ written.pc = "write" /\ written.artifact = reader[r].artifact
        /\ written.copy = Append(reader[r].copy, daemon.key)
    BY <2>1, <2>3 DEF ReaderRow, Sign
  <2>5. /\ answered \in ReaderRow
        /\ answered.pc = "answer" /\ answered.artifact = reader[r].artifact
        /\ answered.copy = reader[r].copy
    BY <2>1 DEF ReaderRow
  <2> HIDE DEF written, answered
  <2>6. new.artifact = reader[r].artifact /\ new \in ReaderRow
    BY <2>4, <2>5
  <2>7. CopyInStep(new, stored[Row(r)])
    <3>1. CASE Necessary(reader[r].copy)
      <4>1. ~HasSignature(reader[r].copy, daemon.key) /\ daemon.signs /\ new = written
        BY <3>1 DEF Necessary
      <4>2. reader[r].copy = stored[Row(r)] => Unwritten(written.copy, stored[Row(r)], daemon.key)
        BY <2>4, <4>1 DEF Unwritten
      <4>3. Unread(reader[r].copy, stored[Row(r)], daemon.key)
              => written.copy = stored[Row(r)] /\ HasSignature(stored[Row(r)], daemon.key)
        BY <2>1, <2>2, <2>4, SignatureIsLast DEF Unread, ReaderRow
      <4>4. QED  BY <2>2, <2>4, <4>1, <4>2, <4>3 DEF CopyInStep
    <3>2. CASE ~Necessary(reader[r].copy)
      <4>1. new = answered
        BY <3>2
      <4>2. reader[r].copy = stored[Row(r)]
        BY <2>2, <3>2 DEF Necessary, Unread
      <4>3. daemon.signs => HasSignature(stored[Row(r)], daemon.key)
        BY <3>2, <4>2 DEF Necessary
      <4>4. QED  BY <2>5, <4>1, <4>2, <4>3 DEF CopyInStep
    <3>3. QED  BY <3>1, <3>2
  <2> HIDE DEF new
  <2>8. reader'[r] = new
    BY <2>1 DEF Proceed, ReadersInStep
  <2>9. InStep(r)'
    BY <2>1, <2>6, <2>7, <2>8 DEF CopyInStep, Up
  <2>10. QED  BY <1>5, <2>1, <2>6, <2>9
<1>8. ASSUME NEW r \in Readers, WriteBack(r) PROVE ReadersInStep'
  <2> DEFINE l == Row(r)
             new == [reader[r] EXCEPT !.pc = "answer"]
  <2>1. /\ reader[r] \in ReaderRow /\ reader[r].pc = "write"
        /\ InStep(r) /\ Proceed(r, new) /\ UNCHANGED <<logOf, daemon>>
        /\ stored' = [stored EXCEPT ![l] = reader[r].copy]
    BY <1>8 DEF WriteBack, ReadersInStep
  <2>2. /\ new \in ReaderRow
        /\ new.pc = "answer" /\ new.artifact = reader[r].artifact
        /\ new.copy = reader[r].copy
    BY <2>1 DEF ReaderRow
  <2>3. l \in Logs /\ stored[l] \in Seq(Signers) /\ daemon.key \in Signers
    BY <2>1 DEF LogsInStep, WellSigned, Up, DaemonTypeOK, Signers
  <2>4. HasSignature(reader[r].copy, daemon.key)
    <3>1. \/ reader[r].copy = stored[l] /\ HasSignature(stored[l], daemon.key)
          \/ reader[r].copy = Append(stored[l], daemon.key)
      BY <2>1 DEF CopyInStep, Unwritten
    <3>2. HasSignature(Append(stored[l], daemon.key), daemon.key)
      BY <2>3, SignatureIsLast
    <3>3. QED  BY <3>1, <3>2
  <2>5. stored'[l] = reader[r].copy
    BY <2>1, <2>3 DEF LogsInStep
  <2> HIDE DEF new
  <2>6. reader'[r] = new
    BY <2>1 DEF Proceed, ReadersInStep
  <2>7. InStep(r)'
    BY <2>1, <2>2, <2>4, <2>5, <2>6 DEF CopyInStep, Up
  <2>8. QED  BY <1>5, <2>1, <2>2, <2>7
<1>9. ASSUME NEW r \in Readers, Answer(r) \/ AbandonRead(r) PROVE ReadersInStep'
  <2>1. IdleReader \in ReaderRow /\ IdleReader.pc = "idle"
    BY DEF IdleReader, ReaderRow
  <2>2. Proceed(r, IdleReader) /\ daemon' = daemon
    BY <1>9 DEF Answer, AbandonRead
  <2>3. QED  BY <1>5, <2>1, <2>2
<1>10. QED
  BY <1>2, <1>3, <1>4, <1>6, <1>7, <1>8, <1>9
  DEF AttestationsNext, attestationVars, RemoveKey, AnswerUnsigned, StoreAttestation, ReaderStep

(* What was answered stays in step with what is stored: rows only grow.    *)
LEMMA AnswersStayInStep ==
  ASSUME AttestationsInv, [AttestationsNext]_attestationVars
  PROVE  AnswerInStep'
<1> USE DEF AttestationsInv
<1>1. ASSUME answer # NoAnswer, answer' = answer PROVE AnswerInStep'
  <2>1. PICK l \in Logs : l = logOf[answer.artifact] /\ stored[l] # None
    BY <1>1 DEF AnswerInStep, LogsInStep
  <2>2. /\ stored'[l] = stored[l] \/ SignedBy(l)
        /\ logOf'[answer.artifact] = l
    BY <1>1, <2>1, RowsAreSigned DEF AnswerInStep
  <2>3. IsPrefix(answer.copy, stored'[l])
    BY <1>1, <2>1, <2>2, SignedRow DEF AnswerInStep
  <2>4. QED  BY <1>1, <2>1, <2>2, <2>3 DEF AnswerInStep, SignedByWorker, HasSignature
<1>2. CASE answer = NoAnswer /\ answer' = answer
  BY <1>2 DEF AnswerInStep, NoAnswer
<1>3. ASSUME NEW r \in Readers, Answer(r) PROVE AnswerInStep'
  <2> DEFINE l == logOf[reader[r].artifact]
             key == IF daemon.signs THEN daemon.key ELSE None
             new == [artifact |-> reader[r].artifact, copy |-> reader[r].copy, key |-> key]
  <2>1. /\ reader[r].artifact \in Artifacts /\ l # None
        /\ reader[r].copy = stored[l]
        /\ daemon.signs => HasSignature(stored[l], daemon.key)
    BY <1>3 DEF Answer, ReadersInStep, CopyInStep
  <2>2. stored[l] \in Seq(Signers) /\ SignedByWorker(stored[l])
    BY <2>1 DEF LogsInStep, WellSigned
  <2>3. IsPrefix(stored[l], stored[l])
    BY <2>2, PrefixOfItself
  <2>4. answer' = new /\ UNCHANGED <<stored, logOf>>
    BY <1>3 DEF Answer
  <2>5. QED
    BY <2>1, <2>2, <2>3, <2>4 DEF AnswerInStep, SignedByWorker, HasSignature
<1>4. ASSUME NEW a \in Artifacts, AnswerUnsigned(a) PROVE AnswerInStep'
  <2>1. logOf[a] # None /\ UNCHANGED <<stored, logOf>>
        /\ answer' = [artifact |-> a, copy |-> stored[logOf[a]], key |-> None]
    BY <1>4 DEF AnswerUnsigned
  <2>2. stored[logOf[a]] \in Seq(Signers)
    BY <2>1 DEF LogsInStep, WellSigned
  <2>3. IsPrefix(stored[logOf[a]], stored[logOf[a]])
    BY <2>2, PrefixOfItself
  <2>4. QED  BY <2>1, <2>2, <2>3 DEF AnswerInStep
<1>5. CASE answer' = answer
  BY <1>1, <1>2, <1>5
<1>6. QED
  BY <1>3, <1>4, <1>5
  DEF AttestationsNext, attestationVars, StartDaemon, StopDaemon, RemoveKey, StoreAttestation,
      ReaderStep, ReadAttestation, SignIfNecessary, WriteBack, AbandonRead

LEMMA DaemonStaysTyped ==
  ASSUME AttestationsInv, [AttestationsNext]_attestationVars
  PROVE  DaemonTypeOK'
<1>1. CASE \E key \in Keys, signs \in BOOLEAN : StartDaemon(key, signs)
  BY <1>1 DEF StartDaemon, DaemonTypeOK
<1>2. CASE StopDaemon
  BY <1>2 DEF StopDaemon, Down, DaemonTypeOK
<1>3. CASE UNCHANGED daemon
  BY <1>3 DEF AttestationsInv, DaemonTypeOK
<1>4. QED
  BY <1>1, <1>2, <1>3
  DEF AttestationsNext, attestationVars, RemoveKey, StoreAttestation, AnswerUnsigned,
      ReaderStep, ReadAttestation, SignIfNecessary, WriteBack, Answer, AbandonRead

(* The invariant holds however readers, restarts and new keys interleave.  *)
THEOREM AttestationsInvHolds == AttestationsSpec => []AttestationsInv
<1>1. AttestationsInv /\ [AttestationsNext]_attestationVars => AttestationsInv'
  BY LogsStayInStep, ReadersStayInStep, AnswersStayInStep, DaemonStaysTyped DEF AttestationsInv
<1>2. QED  BY <1>1, InitHolds, PTL DEF AttestationsSpec

(* No signature that was handed out is lost by the read-modify-write of    *)
(* get_build_artifact_attestation, for any number of readers and logs.     *)
THEOREM AnsweredSignaturesLast == AttestationsSpec => []AnswersLast
<1>1. AttestationsInv => AnswersLast
  BY DEF AttestationsInv, AnswerInStep, AnswersLast, LogsInStep, WellSigned
<1>2. QED  BY <1>1, AttestationsInvHolds, PTL

(* With transparently_sign_attestations an answer is signed by the daemon  *)
(* that gives it and by a worker, whichever reader signed first.           *)
THEOREM AnsweredIsSigned == AttestationsSpec => []AnswersAreSigned
<1>1. AttestationsInv => AnswersAreSigned
  BY DEF AttestationsInv, AnswerInStep, AnswersAreSigned, NoAnswer, SignedByWorker
<1>2. QED  BY <1>1, AttestationsInvHolds, PTL

(* Rows of attestation_logs only grow, by signatures of the running daemon. *)
THEOREM StoredSignaturesStay == AttestationsSpec => SignaturesStay
<1>1. ASSUME AttestationsInv, [AttestationsNext]_attestationVars, NEW l \in Logs, stored[l] # None
      PROVE  /\ IsPrefix(stored[l], stored'[l])
             /\ stored'[l] # stored[l] => Last(stored'[l]) = daemon.key /\ daemon.signs
  BY <1>1, RowsAreSigned, SignedRow DEF SignedBy
<1>2. AttestationsInv /\ [AttestationsNext]_attestationVars =>
        [\A l \in Logs : stored[l] # None =>
           /\ IsPrefix(stored[l], stored'[l])
           /\ stored'[l] # stored[l] => Last(stored'[l]) = daemon.key /\ daemon.signs]_attestationVars
  BY <1>1
<1>3. QED  BY <1>2, AttestationsInvHolds, PTL DEF AttestationsSpec, SignaturesStay
=============================================================================
