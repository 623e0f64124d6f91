----------------------- MODULE AttestationsProperties -----------------------
(***************************************************************************)
(* What the signing of attestations promises.                              *)
(***************************************************************************)
EXTENDS Attestations

(* Whatever a client was given can be given again: although requests write *)
(* back copies that they read some time ago, no signature of a worker, or  *)
(* of an earlier key of the daemon, is lost once it was handed out, and    *)
(* every one is there once.                                                *)
AnswersLast ==
  answer # NoAnswer =>
    LET now == stored[logOf[answer.artifact]]
    IN IsPrefix(answer.copy, now) /\ IsInjective(now)

(* A daemon that signs answers with its own signature and the worker's.    *)
AnswersAreSigned ==
  answer.key # None =>
    /\ HasSignature(answer.copy, answer.key)
    /\ \E w \in WorkerKeys : HasSignature(answer.copy, w)

(* The signature of a worker is never lost or replaced, not even by a      *)
(* daemon with a new key, and API v0 signs nothing.                        *)
SignaturesStay ==
  [][\A l \in Logs : stored[l] # None =>
       /\ IsPrefix(stored[l], stored'[l])
       /\ stored'[l] # stored[l] => Last(stored'[l]) = daemon.key /\ daemon.signs]_attestationVars
=============================================================================
