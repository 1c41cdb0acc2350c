---------------------------- MODULE Placeholders ----------------------------
(***************************************************************************)
(* The cryptography of the library as it stands: key generation,           *)
(* ciphertext updates, transfer proofs, encryption, commitments, PRF and   *)
(* Merkle trees are stubs that return empty bytes and confirm nothing.     *)
(*                                                                         *)
(* Bytes are only empty or not: no stub looks into them.  A Status is      *)
(* abstracted to its ok.                                                   *)
(***************************************************************************)
EXTENDS Integers, Sequences

EmptyBytes == ""

(* Empty bytes, and bytes that a caller made without this library. *)
ByteString == {EmptyBytes, "bytes"}

CiphertextBytes == ByteString
CommitmentBytes == ByteString
ProofBytes == ByteString
PRFOutput == ByteString
PrivateAccountPK == ByteString
PrivateAccountSK == ByteString

KeyGenerationResult ==
  [public_key : PrivateAccountPK, secret_key : PrivateAccountSK, ok : BOOLEAN]

KeyGeneration == [public_key |-> EmptyBytes, secret_key |-> EmptyBytes, ok |-> FALSE]

UpdateCiphertextResult == [ciphertext : CiphertextBytes, ok : BOOLEAN]

(* Gives back what it was given, and reports that it did not update it. *)
UpdateCiphertext(prior_ciphertext, proof, epoch) ==
  [ciphertext |-> prior_ciphertext, ok |-> FALSE]

Encrypt(plaintext, public_key) == EmptyBytes

Decrypt(ciphertext, secret_key) == EmptyBytes

Commit(message) == EmptyBytes

VerifyCommitment(message, commitment) == FALSE

Build(leaves) == EmptyBytes

VerifyRoot(leaves, root) == FALSE

SlipEchoInput(key, input) == input

Evaluate(key, input) == EmptyBytes

ProofVerificationResult == [verified : BOOLEAN, ok : BOOLEAN]

ProveRTransfer(instance) == EmptyBytes

VerifyRTransfer(instance, proof) == [verified |-> FALSE, ok |-> FALSE]

(* The stubs return what their declarations say. *)
ASSUME StubTypes ==
  /\ KeyGeneration \in KeyGenerationResult
  /\ \A bytes, proof \in ByteString :
       /\ UpdateCiphertext(bytes, proof, 0) \in UpdateCiphertextResult
       /\ VerifyRTransfer(bytes, proof) \in ProofVerificationResult
       /\ {Encrypt(bytes, proof), Decrypt(bytes, proof), Commit(bytes), Build(<<bytes>>),
           Evaluate(bytes, proof), ProveRTransfer(bytes)} \subseteq ByteString
       /\ {VerifyCommitment(bytes, proof), VerifyRoot(<<bytes>>, proof)} \subseteq BOOLEAN
=============================================================================
