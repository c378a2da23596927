---------------------------- MODULE KeyRotation ----------------------------
(***************************************************************************)
(* The server key and its rotation, `durpdeploy secret-key rotate`.        *)
(*                                                                         *)
(* The command decrypts every stored ciphertext with the configured key    *)
(* and encrypts it with a fresh one, in one transaction, and prints the    *)
(* new key after the commit.  Any row may refuse and roll everything back; *)
(* the process may die.  The operator stops the server, as the runbook     *)
(* says, and installs the key that was printed.                            *)
(*                                                                         *)
(* A store has one row.  A stored value is its plaintext under a sequence  *)
(* of keys, the outermost first: one key normally, none before encryption  *)
(* was introduced, two when a ciphertext was taken for plaintext.          *)
(***************************************************************************)
EXTENDS Naturals, Sequences

CONSTANTS MaxKeys,      \* bound: keys generated
          MaxWrites,    \* bound: writes of the server
          CrashPoints,  \* where the command may die: "transaction", "print"
          MayMisuse     \* the operator may use --plaintext on encrypted data

RotationAssumption ==
    /\ MaxKeys \in Nat \ {0} /\ MaxWrites \in Nat
    /\ CrashPoints \subseteq {"transaction", "print"} /\ MayMisuse \in BOOLEAN

VARIABLES values,  \* committed value of each store
          saved,   \* ghost: the plaintext last written to each store
          keys,    \* keys generated so far: 1 .. keys
          source,  \* the configured key, 0 for none
          printed, \* the last key printed and not installed, 0 for none
          server,  \* the key of the running server, 0 when it is stopped
          cli,     \* the running command
          writes   \* writes of the server so far

vars == <<values, saved, keys, source, printed, server, cli, writes>>

Legacy == {"variables", "release_variables"}
ServerState == {"totp", "totp_enrollments", "agent_identities", "pairing_identities",
                "claim_log_buffers", "step_log_buffers"}
EncryptedOnly ==
    {"deployment_variables", "lifecycle_variables", "project_templates", "artifact_gates",
     "package_repositories", "verification_targets"} \cup ServerState
Stores == Legacy \cup EncryptedOnly \cup {"staging"}

NoRow == [row |-> FALSE, under |-> <<>>, plain |-> 0]
Failed == [row |-> TRUE, under |-> <<0>>, plain |-> 0]
Plain(p) == [row |-> TRUE, under |-> <<>>, plain |-> p]

\* A row without content: an empty string stays empty under any key.
Blank(v) == v.plain = 0 /\ v # Failed

NoCommand == [pc |-> 0, plaintext |-> FALSE, old |-> 0, new |-> 0, draft |-> <<>>]

-----------------------------------------------------------------------------
(* Box *)

Encrypt(k, v) == IF Blank(v) THEN v ELSE [v EXCEPT !.under = <<k>> \o @]

\* A wrong key fails authentication.
Decrypt(k, v) ==
    IF Blank(v) THEN v
    ELSE IF v.under = <<>> \/ v = Failed THEN Failed
    ELSE IF Head(v.under) = k THEN [v EXCEPT !.under = Tail(@)] ELSE Failed

Reencrypt(v) ==
    LET plain == Decrypt(cli.old, v)
    IN  IF plain = Failed THEN Failed ELSE Encrypt(cli.new, plain)

-----------------------------------------------------------------------------
(* The server *)

\* LoadKey: no key, no server.  The operator installs a printed key first.
Boot ==
    /\ server = 0 /\ cli.pc = 0 /\ printed = 0 /\ source # 0
    /\ server' = source
    /\ UNCHANGED <<values, saved, keys, source, printed, cli, writes>>

Stop ==
    /\ server # 0
    /\ server' = 0
    /\ UNCHANGED <<values, saved, keys, source, printed, cli, writes>>

\* Any handler that stores a secret; 0 stands for an empty one.
Write(s, p) ==
    /\ server # 0 /\ writes < MaxWrites
    /\ values' = [values EXCEPT ![s] = Encrypt(server, Plain(p))]
    /\ saved' = [saved EXCEPT ![s] = p]
    /\ writes' = writes + 1
    /\ UNCHANGED <<keys, source, printed, server, cli>>

\* Staged files end with their deployment.
PurgeTerminalStaging ==
    /\ server # 0 /\ values["staging"].row
    /\ values' = [values EXCEPT !["staging"] = NoRow]
    /\ saved' = [saved EXCEPT !["staging"] = 0]
    /\ UNCHANGED <<keys, source, printed, server, cli, writes>>

-----------------------------------------------------------------------------
(* The command *)

\* loadRotationBox: --plaintext needs no key.
runSecretKey(plaintext) ==
    /\ server = 0 /\ cli.pc = 0 /\ printed = 0 /\ keys < MaxKeys
    /\ IF plaintext THEN MayMisuse \/ source = 0 ELSE source # 0
    /\ keys' = keys + 1
    /\ cli' = [pc |-> 1, plaintext |-> plaintext, old |-> source, new |-> keys + 1,
               draft |-> values]
    /\ UNCHANGED <<values, saved, source, printed, server, writes>>

\* Every error returns and rolls the transaction back.
Abort ==
    /\ cli' = NoCommand
    /\ UNCHANGED <<values, saved, keys, source, printed, server, writes>>

\* The step of the command that rotates a store: a row that fails aborts it.
Step(n, s, rotated) ==
    /\ cli.pc = n
    /\ \/ rotated = Failed /\ Abort
       \/ /\ rotated # Failed
          /\ cli' = [cli EXCEPT !.pc = n + 1, !.draft[s] = rotated]
          /\ UNCHANGED <<values, saved, keys, source, printed, server, writes>>

\* Variables and release variables may predate encryption.
rotateLegacyValue(v) ==
    IF Blank(v) THEN v ELSE IF cli.plaintext THEN Encrypt(cli.new, v) ELSE Reencrypt(v)

\* Stores that refuse --plaintext for any row.
rotateEncryptedRow(v) == IF v.row /\ cli.plaintext THEN Failed ELSE Reencrypt(v)

\* Stores that refuse --plaintext for a row with content.
rotateServerCiphertext(v) ==
    IF Blank(v) THEN v ELSE IF cli.plaintext THEN Failed ELSE Reencrypt(v)

rotateVariables == Step(1, "variables", rotateLegacyValue(cli.draft["variables"]))
rotateReleaseVariables ==
    Step(2, "release_variables", rotateLegacyValue(cli.draft["release_variables"]))

CountStagingChunks == ~values["staging"].row

\* Staged files are not rotated: none may be left.
rotateStoredCredentials ==
    Step(3, "staging", IF CountStagingChunks THEN cli.draft["staging"] ELSE Failed)
rotateDeploymentVariables ==
    Step(4, "deployment_variables", rotateEncryptedRow(cli.draft["deployment_variables"]))
rotateLifecycleVariables ==
    Step(5, "lifecycle_variables", rotateEncryptedRow(cli.draft["lifecycle_variables"]))
rotateProjectTemplates ==
    Step(6, "project_templates", rotateServerCiphertext(cli.draft["project_templates"]))
rotateArtifactGateChunks ==
    Step(7, "artifact_gates", rotateEncryptedRow(cli.draft["artifact_gates"]))
rotatePackageRepositories ==
    Step(8, "package_repositories", rotateEncryptedRow(cli.draft["package_repositories"]))

rotateVerificationTarget(v) == rotateServerCiphertext(v)
rotateVerificationTargets ==
    Step(9, "verification_targets", rotateVerificationTarget(cli.draft["verification_targets"]))

rotateMFAState == Step(10, "totp", rotateServerCiphertext(cli.draft["totp"]))
rotateTOTPEnrollment ==
    Step(11, "totp_enrollments", rotateServerCiphertext(cli.draft["totp_enrollments"]))
rotateAgentIdentity ==
    Step(12, "agent_identities", rotateServerCiphertext(cli.draft["agent_identities"]))
rotatePairingIdentity ==
    Step(13, "pairing_identities", rotateServerCiphertext(cli.draft["pairing_identities"]))
rotateRemoteClaimLogBuffer ==
    Step(14, "claim_log_buffers", rotateServerCiphertext(cli.draft["claim_log_buffers"]))
rotateRemoteStepLogBuffer ==
    Step(15, "step_log_buffers", rotateServerCiphertext(cli.draft["step_log_buffers"]))

Commit ==
    /\ cli.pc = 16
    /\ values' = cli.draft
    /\ cli' = [cli EXCEPT !.pc = 17]
    /\ UNCHANGED <<saved, keys, source, printed, server, writes>>

PrintKey ==
    /\ cli.pc = 17
    /\ printed' = cli.new
    /\ cli' = NoCommand
    /\ UNCHANGED <<values, saved, keys, source, server, writes>>

MutantCrash ==
    /\ cli.pc \in 1..16 /\ "transaction" \in CrashPoints
    /\ values' = cli.draft
    /\ cli' = NoCommand
    /\ UNCHANGED <<saved, keys, source, printed, server, writes>>

\* The process dies: an open transaction is rolled back.
Crash ==
    /\ \/ cli.pc \in 1..16 /\ "transaction" \in CrashPoints
       \/ cli.pc = 17 /\ "print" \in CrashPoints
    /\ Abort

Install ==
    /\ printed # 0
    /\ source' = printed /\ printed' = 0
    /\ UNCHANGED <<values, saved, keys, server, cli, writes>>

-----------------------------------------------------------------------------
\* An empty database with a key, or one from before encryption without.
Init ==
    /\ \/ source = 1 /\ keys = 1 /\ values = [s \in Stores |-> NoRow]
       \/ source = 0 /\ keys = 0
          /\ values = [s \in Stores |-> IF s \in Legacy THEN Plain(1) ELSE NoRow]
    /\ saved = [s \in Stores |-> values[s].plain]
    /\ printed = 0 /\ server = 0 /\ cli = NoCommand /\ writes = 0

rotateNext ==
    \/ rotateVariables \/ rotateReleaseVariables \/ rotateStoredCredentials
    \/ rotateDeploymentVariables \/ rotateLifecycleVariables \/ rotateProjectTemplates
    \/ rotateArtifactGateChunks \/ rotatePackageRepositories \/ rotateVerificationTargets
    \/ rotateMFAState \/ rotateTOTPEnrollment \/ rotateAgentIdentity
    \/ rotatePairingIdentity \/ rotateRemoteClaimLogBuffer \/ rotateRemoteStepLogBuffer

Next ==
    \/ Boot \/ Stop \/ PurgeTerminalStaging
    \/ \E s \in Stores, p \in 0..1 : Write(s, p)
    \/ \E plaintext \in BOOLEAN : runSecretKey(plaintext)
    \/ rotateNext \/ Commit \/ PrintKey \/ Crash \/ Install

Spec == Init /\ [][Next]_vars

-----------------------------------------------------------------------------
(* Properties *)

\* Keys that are in use were generated.
TypeOK ==
    /\ source \in 0..keys /\ printed \in 0..keys /\ server \in 0..keys /\ keys <= MaxKeys
    /\ \A s \in Stores : values[s] # Failed /\ saved[s] \in 0..1
    /\ cli.pc \in 0..17

ReadableUnder(k, s) == Decrypt(k, values[s]) = [values[s] EXCEPT !.under = <<>>,
                                                                !.plain = saved[s]]

\* A server that runs reads in every store what was saved there last, whatever
\* rotations, refusals and crashes came before (runSecretKey).
Readable == server # 0 => \A s \in Stores : ReadableUnder(server, s)

\* The database is never half migrated: whenever no command runs, all stored
\* ciphertext is under one key (the transaction of runSecretKey).
NeverHalfMigrated ==
    cli.pc = 0 => \A s, t \in Stores :
        values[s].under # <<>> /\ values[t].under # <<>> =>
            Head(values[s].under) = Head(values[t].under)

\* --plaintext never takes a ciphertext of an encrypted-only store for plaintext,
\* also when it is used by mistake (rotateServerCiphertext).
EncryptedOnlySafe == server # 0 => \A s \in EncryptedOnly : ReadableUnder(server, s)

=============================================================================
