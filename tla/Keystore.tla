------------------------------ MODULE Keystore ------------------------------
(***************************************************************************)
(* packages/sdk keystore.ts: a key is three records, its encrypted file, its *)
(* label and the passphrase in the system's secret store, written in that    *)
(* order by three awaits.  A record half written counts as not there: a cut  *)
(* label is skipped when keys are listed and a cut file does not decrypt.    *)
(***************************************************************************)
VARIABLES keyFile, keyMeta, keySecret

keystoreVars == <<keyFile, keyMeta, keySecret>>

KeystoreInit == keyFile = {} /\ keyMeta = {} /\ keySecret = {}

WriteKeyFile(k) ==
  /\ k \notin keyFile /\ keyFile' = keyFile \cup {k}
  /\ UNCHANGED <<keyMeta, keySecret>>

WriteLabel(k) == keyMeta' = keyMeta \cup {k} /\ UNCHANGED <<keyFile, keySecret>>

PutSecret(k) == keySecret' = keySecret \cup {k} /\ UNCHANGED <<keyFile, keyMeta>>

\* What the store answers of a passphrase; `reads` when it is unlocked for this user.
\* The Keychain and libsecret answer a refusal as they answer a key they never held;
\* only Windows says which.
Answer(k, reads, store) ==
  CASE k \notin keySecret -> "none"
    [] k \in keySecret /\ reads -> "passphrase"
    [] OTHER -> IF store = "windows-dpapi" THEN "unreadable" ELSE "none"

\* load: the passphrase is asked for before the file is read.
Load(k, reads, store) ==
  LET answer == Answer(k, reads, store)
  IN  IF answer = "passphrase" THEN IF k \in keyFile THEN "key" ELSE "no file" ELSE answer

Loadable(k) == Load(k, TRUE, "any") = "key"

\* list: the keys that have a label, whether or not they can be loaded.
LabelledKeys == keyMeta

=============================================================================
