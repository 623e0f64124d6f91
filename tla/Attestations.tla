---------------------------- MODULE Attestations ----------------------------
(***************************************************************************)
(* The attestations of a build, and the daemon's endpoint that signs them  *)
(* when they are asked for.  One attestation may belong to several         *)
(* artifacts: those of the friends that share a report.  The daemon may be *)
(* stopped between any two statements, and started with another key.       *)
(***************************************************************************)
EXTENDS Options, Naturals, Sequences, SequencesExt

CONSTANTS
  Artifacts,   \* rows of rebuild_artifacts, of whatever rebuilds
  Logs,        \* ids of attestation_logs
  Keys,        \* the daemon's keys, in the order it may get them
  WorkerKeys,  \* keys of workers, who sign what they report
  Readers      \* requests that may be handled at a time

ASSUME AttestationsAssumption ==
  /\ Keys \cap WorkerKeys = {}
  /\ None \notin Keys \cup WorkerKeys
  /\ None \notin Seq(Keys \cup WorkerKeys)
  /\ None \notin Logs

VARIABLES
  stored,     \* table attestation_logs: the key ids of the signatures of each
  logOf,      \* rebuild_artifacts.attestation_log_id
  keyFile,    \* the private key on disk
  daemon,     \* the running daemon: its key and configuration
  reader,     \* get_build_artifact_attestation, one record per request
  answer      \* ghost: what a client was given last, and the key of a daemon that signs

attestationVars == <<stored, logOf, keyFile, daemon, reader, answer>>

IdleReader == [pc |-> "idle", artifact |-> None, copy |-> <<>>, signed |-> FALSE]

NoAnswer == [artifact |-> None, copy |-> <<>>, key |-> None]

Down == [key |-> None, signs |-> FALSE]

AttestationsInit ==
  /\ stored = [l \in Logs |-> None]
  /\ logOf = [a \in Artifacts |-> None]
  /\ keyFile = None
  /\ daemon = Down
  /\ reader = [r \in Readers |-> IdleReader]
  /\ answer = NoAnswer

Up == daemon.key # None

-----------------------------------------------------------------------------
(* Attestation *)

HasSignature(signatures, key) == key \in ToSet(signatures)

(* Fault: the daemon's signature replaces the others.                      *)
SignAnew(signatures, key) == <<key>>

Sign(signatures, key) == Append(signatures, key)

(* Fault: the daemon signs only what has one signature.                    *)
NecessaryIfNew(signatures) == daemon.signs /\ Len(signatures) = 1

(* transparently_sign_attestations, and the test of                        *)
(* compressed_attestation_sign_if_necessary.                               *)
Necessary(signatures) == daemon.signs /\ ~HasSignature(signatures, daemon.key)

-----------------------------------------------------------------------------
(* The daemon *)

(* load_or_create_privkey_pem: a key is made only if there is no file.     *)
StartDaemon(key, signs) ==
  /\ ~Up
  /\ keyFile \in {key, None}
  /\ keyFile' = key
  /\ daemon' = [key |-> key, signs |-> signs]
  /\ UNCHANGED <<stored, logOf, reader, answer>>

StopDaemon ==
  /\ Up
  /\ daemon' = Down
  /\ reader' = [r \in Readers |-> IdleReader]
  /\ UNCHANGED <<stored, logOf, keyFile, answer>>

(* The administrator takes the key away, while the daemon runs or not.     *)
RemoveKey ==
  /\ keyFile # None
  /\ keyFile' = None
  /\ UNCHANGED <<stored, logOf, daemon, reader, answer>>

(* submit_rebuild_report: one row for the artifacts of all friends.        *)
StoreAttestation(artifacts, l, worker) ==
  /\ Up
  /\ stored[l] = None
  /\ \A a \in artifacts : logOf[a] = None
  /\ stored' = [stored EXCEPT ![l] = <<worker>>]
  /\ logOf' = [a \in Artifacts |-> IF a \in artifacts THEN l ELSE logOf[a]]
  /\ UNCHANGED <<keyFile, daemon, reader, answer>>

-----------------------------------------------------------------------------
(* get_build_artifact_attestation *)

Proceed(r, state) == reader' = [reader EXCEPT ![r] = state]

ReadAttestation(r, a) ==
  /\ Up
  /\ reader[r].pc = "idle"
  /\ logOf[a] # None
  /\ Proceed(r, [pc |-> "check", artifact |-> a, copy |-> stored[logOf[a]], signed |-> FALSE])
  /\ UNCHANGED <<stored, logOf, keyFile, daemon, answer>>

(* Decompressing and compressing, the handler yields. *)
SignIfNecessary(r) ==
  /\ reader[r].pc = "check"
  /\ IF Necessary(reader[r].copy)
     THEN Proceed(r, [reader[r] EXCEPT !.pc = "write", !.signed = TRUE,
                                       !.copy = Sign(@, daemon.key)])
     ELSE Proceed(r, [reader[r] EXCEPT !.pc = "answer"])
  /\ UNCHANGED <<stored, logOf, keyFile, daemon, answer>>

(* Fault: the signature is answered, but not stored.                       *)
WriteNothing(r) ==
  /\ reader[r].pc = "write"
  /\ Proceed(r, [reader[r] EXCEPT !.pc = "answer"])
  /\ UNCHANGED <<stored, logOf, keyFile, daemon, answer>>

WriteBack(r) ==
  /\ reader[r].pc = "write"
  /\ stored' = [stored EXCEPT ![logOf[reader[r].artifact]] = reader[r].copy]
  /\ Proceed(r, [reader[r] EXCEPT !.pc = "answer"])
  /\ UNCHANGED <<logOf, keyFile, daemon, answer>>

Answer(r) ==
  /\ reader[r].pc = "answer"
  /\ answer' = [artifact |-> reader[r].artifact, copy |-> reader[r].copy,
                key |-> IF daemon.signs THEN daemon.key ELSE None]
  /\ Proceed(r, IdleReader)
  /\ UNCHANGED <<stored, logOf, keyFile, daemon>>

(* get_attestation of API v0 takes what there is, and signs nothing.       *)
AnswerUnsigned(a) ==
  /\ Up
  /\ logOf[a] # None
  /\ answer' = [artifact |-> a, copy |-> stored[logOf[a]], key |-> None]
  /\ UNCHANGED <<stored, logOf, keyFile, daemon, reader>>

(* The connection is lost, or a statement fails. *)
AbandonRead(r) ==
  /\ reader[r].pc # "idle"
  /\ Proceed(r, IdleReader)
  /\ UNCHANGED <<stored, logOf, keyFile, daemon, answer>>

ReaderStep(r) ==
  \/ \E a \in Artifacts : ReadAttestation(r, a)
  \/ SignIfNecessary(r)
  \/ WriteBack(r)
  \/ Answer(r)
  \/ AbandonRead(r)

AttestationsNext ==
  \/ \E key \in Keys, signs \in BOOLEAN : StartDaemon(key, signs)
  \/ StopDaemon
  \/ RemoveKey
  \/ \E artifacts \in SUBSET Artifacts \ {{}}, l \in Logs, worker \in WorkerKeys :
       StoreAttestation(artifacts, l, worker)
  \/ \E a \in Artifacts : AnswerUnsigned(a)
  \/ \E r \in Readers : ReaderStep(r)

AttestationsSpec == AttestationsInit /\ [][AttestationsNext]_attestationVars
=============================================================================
