----------------------------- MODULE SessionKeys ----------------------------
(* Signers and session keys on disk (cli/src/signer, commands/signer-enroll.ts,*)
(* commands/session.ts, util/session-mint.ts): commands of several processes   *)
(* write and read the same files, a file at a time, and may die in between.    *)
(* A key is a number; the secret of a TOTP enrollment has the number of its    *)
(* key, as both are made together.                                             *)
EXTENDS Integers, FiniteSets

CONSTANTS Process, Passphrase,
  kyTogether,   \* sets of signers that may be in use side by side
  MaxKeys       \* bound: keys generated

SignerTier == {"software", "totp", "os-keychain"}
ASSUME KeysAssumption ==
  MaxKeys \in Nat /\ Passphrase # {} /\ kyTogether \subseteq SUBSET SignerTier

VARIABLES
  kyFiles,     \* the files below $AGENTLOCK_HOME and the keychain entry
  kyCommands,  \* what each process is doing
  kyNext,      \* the next key to be generated
  kyEnrolled,  \* [tier, key, pass] of all enrollments that were begun
  kyTiers,     \* the signers in use
  kyAccepted   \* session keys first written by a create, or accepted by the daemon

kyVars == <<kyFiles, kyCommands, kyNext, kyEnrolled, kyTiers, kyAccepted>>

\* What a file holds: a key, and where it has them a passphrase and an expiry.
Holds(k) == [key |-> k, pass |-> "", ttl |-> FALSE, expired |-> FALSE]

Missing == 0
Torn == -1      \* what a process that dies while it writes may leave
Garbage == -2   \* what a wrong passphrase or secret unseals
Idle == [cmd |-> "idle", pc |-> "idle"]
Busy(p) == kyCommands[p].cmd # "idle"

Goes(p, c) == kyCommands' = [kyCommands EXCEPT ![p] = c]
Writes(file, value) == kyFiles' = [kyFiles EXCEPT ![file] = value]
AtStep(p, cmd, pc) == kyCommands[p].cmd = cmd /\ kyCommands[p].pc = pc

-----------------------------------------------------------------------------
(* Enrollment *)

\* `signer enroll` has generated its key, which for TOTP is sealed by secret and
\* passphrase.
StartEnroll(p) ==
  /\ ~Busy(p) /\ kyNext <= MaxKeys
  /\ \E tier \in kyTiers \ {"software"}, pass \in Passphrase :
       /\ tier # "totp" => pass = (CHOOSE q \in Passphrase : TRUE)
       /\ Goes(p, [cmd |-> tier, pc |-> "first", key |-> kyNext, pass |-> pass])
       /\ kyEnrolled' = kyEnrolled \cup {[tier |-> tier, key |-> kyNext, pass |-> pass]}
  /\ kyNext' = kyNext + 1
  /\ UNCHANGED <<kyFiles, kyTiers, kyAccepted>>

enrollTOTPSigner(p) ==
  LET c == kyCommands[p] IN
  /\ c.cmd = "totp"
  /\ CASE c.pc = "first"  -> /\ Writes("sealed", [Holds(c.key) EXCEPT !.pass = c.pass])
                             /\ Goes(p, [c EXCEPT !.pc = "secret"])
       [] c.pc = "secret" -> Writes("secret", Holds(c.key)) /\ Goes(p, [c EXCEPT !.pc = "checksum"])
       [] OTHER           -> Writes("checksum", Holds(c.key)) /\ Goes(p, Idle)
  /\ UNCHANGED <<kyNext, kyEnrolled, kyTiers, kyAccepted>>

\* The entry of the keychain is replaced before the file that describes it. An
\* enrollment is given a time to live, or none.
enrollOSKeychainSigner(p) ==
  LET c == kyCommands[p] IN
  /\ c.cmd = "os-keychain"
  /\ IF c.pc = "first"
       THEN Writes("keychain", Holds(c.key)) /\ Goes(p, [c EXCEPT !.pc = "meta"])
       ELSE \E ttl \in BOOLEAN :
              Writes("meta", [Holds(c.key) EXCEPT !.ttl = ttl]) /\ Goes(p, Idle)
  /\ UNCHANGED <<kyNext, kyEnrolled, kyTiers, kyAccepted>>

TimePasses ==
  /\ kyFiles.meta.ttl
  /\ kyFiles' = [kyFiles EXCEPT !.meta.expired = TRUE]
  /\ UNCHANGED <<kyCommands, kyNext, kyEnrolled, kyTiers, kyAccepted>>

-----------------------------------------------------------------------------
(* Loading a signer, for a session to be created or rotated *)

verifyCode(secret, code) == code.of = secret /\ code.age \in {-1, 0, 1}

unseal(sealed, secret, pass) ==
  IF sealed.key = secret /\ sealed.pass = pass THEN sealed.key ELSE Garbage

StartSession(p) ==
  /\ ~Busy(p)
  /\ \E cmd \in {"create", "rotate"}, tier \in kyTiers, pass \in Passphrase,
        of \in 1..MaxKeys, age \in {0, 2} :
       /\ tier # "totp" => pass = (CHOOSE q \in Passphrase : TRUE) /\ of = 1 /\ age = 0
       /\ age = 2 => of = 1
       /\ Goes(p, [cmd |-> cmd, pc |-> "load", tier |-> tier, pass |-> pass,
                   code |-> [of |-> of, age |-> age], signer |-> Missing, key |-> Missing])
  /\ UNCHANGED <<kyFiles, kyNext, kyEnrolled, kyTiers, kyAccepted>>

\* A check has failed: the command ends.
Refuses(p) == Goes(p, Idle) /\ UNCHANGED kyFiles

loadOrCreateSoftwareSigner(p) ==
  LET c == kyCommands[p] f == kyFiles.software.key IN
  /\ c.tier = "software" /\ c.pc = "load"
  /\ CASE f = Torn    -> Refuses(p) /\ UNCHANGED kyNext
       [] f = Missing -> /\ kyNext <= MaxKeys /\ kyNext' = kyNext + 1
                         /\ Writes("software", Holds(kyNext))
                         /\ Goes(p, [c EXCEPT !.pc = "key", !.signer = kyNext])
       [] OTHER       -> /\ Goes(p, [c EXCEPT !.pc = "key", !.signer = f])
                         /\ UNCHANGED <<kyFiles, kyNext>>
  /\ UNCHANGED <<kyEnrolled, kyTiers, kyAccepted>>

\* Mutant: the checksum of the unsealed key is not looked at.
loadTOTPSigner_Unchecked(p) ==
  LET c == kyCommands[p] IN
  /\ c.tier = "totp" /\ c.pc = "load"
  /\ IF {kyFiles.sealed.key, kyFiles.secret.key} \cap {Missing, Torn} = {}
        /\ verifyCode(kyFiles.secret.key, c.code)
       THEN /\ Goes(p, [c EXCEPT !.pc = "key",
                          !.signer = unseal(kyFiles.sealed, kyFiles.secret.key, c.pass)])
            /\ UNCHANGED kyFiles
       ELSE Refuses(p)
  /\ UNCHANGED <<kyNext, kyEnrolled, kyTiers, kyAccepted>>

\* Two of the three files are read at once, the third after the key derivation.
loadTOTPSigner(p) ==
  LET c == kyCommands[p] IN
  /\ c.tier = "totp"
  /\ \/ /\ c.pc = "load"
        /\ IF /\ {kyFiles.sealed.key, kyFiles.secret.key} \cap {Missing, Torn} = {}
              /\ verifyCode(kyFiles.secret.key, c.code)
             THEN /\ Goes(p, [c EXCEPT !.pc = "check",
                                !.key = unseal(kyFiles.sealed, kyFiles.secret.key, c.pass)])
                  /\ UNCHANGED kyFiles
             ELSE Refuses(p)
     \/ /\ c.pc = "check"
        /\ IF kyFiles.checksum.key = c.key
             THEN Goes(p, [c EXCEPT !.pc = "key", !.signer = c.key, !.key = Missing])
                  /\ UNCHANGED kyFiles
             ELSE Refuses(p)
  /\ UNCHANGED <<kyNext, kyEnrolled, kyTiers, kyAccepted>>

loadOSKeychainSigner(p) ==
  LET c == kyCommands[p] meta == kyFiles.meta IN
  /\ c.tier = "os-keychain"
  /\ \/ /\ c.pc = "load"
        /\ IF meta.key \in {Missing, Torn} \/ meta.expired
             THEN Refuses(p)
             ELSE Goes(p, [c EXCEPT !.pc = "check", !.key = meta.key]) /\ UNCHANGED kyFiles
     \/ /\ c.pc = "check"
        /\ IF kyFiles.keychain.key = c.key
             THEN Goes(p, [c EXCEPT !.pc = "key", !.signer = c.key, !.key = Missing])
                  /\ UNCHANGED kyFiles
             ELSE Refuses(p)
  /\ UNCHANGED <<kyNext, kyEnrolled, kyTiers, kyAccepted>>

-----------------------------------------------------------------------------
(* The session's own key *)

\* create, and install by way of mintAttestedSession, take the key that is there.
mintAttestedSession(p) ==
  LET c == kyCommands[p] f == kyFiles.session.key IN
  /\ AtStep(p, "create", "key")
  /\ CASE f = Torn    -> Refuses(p) /\ UNCHANGED <<kyNext, kyAccepted>>
       [] f = Missing -> /\ kyNext <= MaxKeys /\ kyNext' = kyNext + 1
                         /\ Writes("session", Holds(kyNext))
                         /\ kyAccepted' = kyAccepted \cup {kyNext}
                         /\ Goes(p, [c EXCEPT !.pc = "send", !.key = kyNext])
       [] OTHER       -> /\ Goes(p, [c EXCEPT !.pc = "send", !.key = f])
                         /\ UNCHANGED <<kyFiles, kyNext, kyAccepted>>
  /\ UNCHANGED <<kyEnrolled, kyTiers>>

\* The daemon accepts the attestation, or refuses it, or its answer is lost.
CreateAnswered(p) ==
  /\ AtStep(p, "create", "send")
  /\ \/ kyAccepted' = kyAccepted \cup {kyCommands[p].key}
     \/ UNCHANGED kyAccepted
  /\ Refuses(p)
  /\ UNCHANGED <<kyNext, kyEnrolled, kyTiers>>

runSessionRotate(p) ==
  LET c == kyCommands[p] IN
  /\ c.cmd = "rotate"
  /\ \/ /\ c.pc = "key" /\ kyNext <= MaxKeys /\ kyNext' = kyNext + 1
        /\ Goes(p, [c EXCEPT !.pc = "send", !.key = kyNext])
        /\ UNCHANGED <<kyFiles, kyAccepted>>
     \/ /\ c.pc = "send"
        /\ \/ /\ Goes(p, [c EXCEPT !.pc = "persist"])
              /\ kyAccepted' = kyAccepted \cup {c.key} /\ UNCHANGED kyFiles
           \/ /\ Refuses(p)
              /\ kyAccepted' \in {kyAccepted, kyAccepted \cup {c.key}}
        /\ UNCHANGED kyNext
     \/ /\ c.pc = "persist"
        /\ Writes("session", Holds(c.key)) /\ Goes(p, Idle)
        /\ UNCHANGED <<kyNext, kyAccepted>>
  /\ UNCHANGED <<kyEnrolled, kyTiers>>

\* A process dies; the file it was about to write may be torn.
NextFile(c) ==
  CASE c.cmd = "totp" /\ c.pc = "first"        -> {"sealed"}
    [] c.cmd = "totp" /\ c.pc # "first"        -> {c.pc}
    [] c.cmd = "os-keychain" /\ c.pc = "meta"  -> {"meta"}
    [] c.cmd = "create" /\ c.pc = "key"        -> IF kyFiles.session.key = Missing THEN {"session"} ELSE {}
    [] c.pc = "persist"                        -> {"session"}
    [] OTHER                                   -> {}

Dies(p) ==
  /\ Busy(p) /\ Goes(p, Idle)
  /\ \/ UNCHANGED kyFiles
     \/ \E f \in NextFile(kyCommands[p]) : Writes(f, Holds(Torn))
  /\ UNCHANGED <<kyNext, kyEnrolled, kyTiers, kyAccepted>>

kyInit ==
  /\ kyFiles = [f \in {"sealed", "secret", "checksum", "keychain", "meta", "software", "session"} |->
                  Holds(Missing)]
  /\ kyCommands = [p \in Process |-> Idle]
  /\ kyNext = 1 /\ kyEnrolled = {} /\ kyAccepted = {} /\ kyTiers \in kyTogether

LoadSteps(p) ==
  /\ kyCommands[p].cmd \in {"create", "rotate"}
  /\ loadOrCreateSoftwareSigner(p) \/ loadTOTPSigner(p) \/ loadOSKeychainSigner(p)

kyNextStep ==
  \/ TimePasses
  \/ \E p \in Process :
       \/ StartEnroll(p) \/ enrollTOTPSigner(p) \/ enrollOSKeychainSigner(p)
       \/ StartSession(p) \/ LoadSteps(p)
       \/ mintAttestedSession(p) \/ CreateAnswered(p) \/ runSessionRotate(p) \/ Dies(p)

kySpec == kyInit /\ [][kyNextStep]_kyVars

-----------------------------------------------------------------------------
\* Whatever enrollments overlap, die half-way or follow one another: a command
\* signs only with the key of one enrollment, whose passphrase and whose current
\* code it was given; the parts of two enrollments never make a signer (the
\* checks of loadTOTPSigner and loadOSKeychainSigner).
LoadedIsEnrolled ==
  \A p \in Process :
    LET c == kyCommands[p] IN
    (c.cmd \in {"create", "rotate"} /\ c.signer # Missing /\ c.tier # "software") =>
      \E e \in kyEnrolled :
        /\ e.tier = c.tier /\ e.key = c.signer
        /\ c.tier = "totp" => e.pass = c.pass /\ c.code = [of |-> e.key, age |-> 0]

\* "so a failed rotate doesn't overwrite the working key": a session key gets to
\* disk by a create or after the daemon has accepted it, and not otherwise.
RefusedRotateKeepsKey ==
  kyFiles.session.key \in {Missing, Torn} \cup kyAccepted

SignersHold == LoadedIsEnrolled /\ RefusedRotateKeepsKey

\* Not so: "a fresh Ed25519 keypair per session ... discarded on session end".
FreshPerSession ==
  \A p \in Process : AtStep(p, "create", "key") => kyFiles.session.key = Missing

\* Not so: a rotation that was accepted is the one on disk; its answer may be
\* lost, and the process may die before it has written the key.
RotatedKeyOnDisk ==
  (\A p \in Process : ~Busy(p)) /\ kyAccepted # {} =>
    kyFiles.session.key = CHOOSE k \in kyAccepted : \A j \in kyAccepted : j <= k
=============================================================================
