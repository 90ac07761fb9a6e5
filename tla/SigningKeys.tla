----------------------------- MODULE SigningKeys -----------------------------
(***************************************************************************)
(* The OpenID provider's RS256 keys: every server loads or mints one when  *)
(* it starts and signs with it until it stops; an administrator rotates    *)
(* and revokes them in the database; the key set is read from the database *)
(* (auth-server/src/op_keys.rs, handlers/signing_key.rs, jwks in           *)
(* handlers/health.rs, SigningKeyStore in auth-core/src/store/pg.rs).  PEM *)
(* and JWK conversions always succeed on keys this code made, and are left *)
(* out, and so is /userinfo: it verifies with the active key alone         *)
(* (op_verifier), so it refuses tokens of a retired one, although          *)
(* signing_key.rs says of it that "tokens it signed still verify".         *)
(***************************************************************************)
EXTENDS Naturals, Sequences

CONSTANTS
  Keys,       \* kids that can be minted
  Servers,    \* processes of the auth server
  Rotations,  \* requests to rotate
  NoKey       \* no kid

ASSUME KeyAssumption == NoKey \notin Keys

VARIABLES
  status,     \* signing_keys.status, "none" for a kid without a row
  created,    \* the kids with a row, in the order of created_at
  issuer,     \* the key each server signs with; {} while it is down
  rotation,   \* what each request to rotate has read
  signed,     \* history: the keys some token was signed with
  gone,       \* history: the keys a revocation has reached
  overtaken   \* history: keys revoked while a rotation was about to retire them

keyVars == <<status, created, issuer, rotation, signed, gone, overtaken>>

KeyTypeOK ==
  /\ status \in [Keys -> {"none", "active", "retired", "revoked"}]
  /\ created \in Seq(Keys)
  /\ \A i, j \in DOMAIN created : created[i] = created[j] => i = j
  /\ \A k \in Keys : (status[k] = "none") <=> k \notin {created[i] : i \in DOMAIN created}
  /\ issuer \in [Servers -> {{}} \cup {{k} : k \in Keys \cup {NoKey}}]
  /\ signed \subseteq Keys /\ gone \subseteq Keys /\ overtaken \subseteq Keys

KeyInit ==
  /\ status = [k \in Keys |-> "none"]
  /\ created = <<>>
  /\ issuer = [s \in Servers |-> {}]
  /\ rotation = [r \in Rotations |-> [at |-> "idle", old |-> NoKey]]
  /\ signed = {} /\ gone = {} /\ overtaken = {}

(* load_active: the newest row that is active. *)
LoadActive ==
  LET active == {i \in DOMAIN created : status[created[i]] = "active"} IN
  IF active = {} THEN NoKey
  ELSE created[CHOOSE i \in active : \A j \in active : j <= i]

(* save: the row is new and active. *)
Save(k) ==
  /\ status[k] = "none"
  /\ status' = [status EXCEPT ![k] = "active"]
  /\ created' = Append(created, k)

(* Mutant: a rotation retires every key. *)
RotateAll(old, new) ==
  /\ status[new] = "none"
  /\ status' = [k \in Keys |-> IF k = new THEN "active"
                               ELSE IF status[k] = "none" THEN "none" ELSE "retired"]
  /\ created' = Append(created, new)

(* Mutant: the old key is retired outside the transaction, whose insert    *)
(* then fails.                                                             *)
RotateHalf(old, new) ==
  /\ status[new] = "none"
  /\ status' = [status EXCEPT ![old] = "retired"]
  /\ UNCHANGED created

(* rotate: one transaction; the old key is retired whatever it is by then. *)
Rotate(old, new) ==
  /\ status[new] = "none"
  /\ status' = [status EXCEPT ![old] = "retired", ![new] = "active"]
  /\ created' = Append(created, new)

(* revoke: whatever the key's status is. *)
RevokeRow(k) ==
  /\ status[k] # "none"
  /\ status' = [status EXCEPT ![k] = "revoked"]
  /\ UNCHANGED created

(* Mutant: a key that could not be stored is used all the same. *)
BootstrapUnsaved(s) ==
  /\ issuer[s] = {}
  /\ \E k \in Keys :
       /\ status[k] = "none"
       /\ issuer' = [issuer EXCEPT ![s] = {k}]
       /\ UNCHANGED <<status, created>>
  /\ UNCHANGED <<rotation, signed, gone, overtaken>>

(* bootstrap_op_issuer: a load that fails counts as no key; without a key  *)
(* one is minted, and without storing it the server runs without issuer.   *)
Bootstrap(s) ==
  /\ issuer[s] = {}
  /\ \/ /\ LoadActive # NoKey
        /\ issuer' = [issuer EXCEPT ![s] = {LoadActive}]
        /\ UNCHANGED <<status, created>>
     \/ \E k \in Keys : Save(k) /\ issuer' = [issuer EXCEPT ![s] = {k}]
     \/ /\ issuer' = [issuer EXCEPT ![s] = {NoKey}]
        /\ UNCHANGED <<status, created>>
  /\ UNCHANGED <<rotation, signed, gone, overtaken>>

StopServer(s) ==
  /\ issuer[s] # {}
  /\ issuer' = [issuer EXCEPT ![s] = {}]
  /\ UNCHANGED <<status, created, rotation, signed, gone, overtaken>>

(* A token is signed with the key loaded at the start. *)
Sign(s, k) ==
  /\ issuer[s] = {k} /\ k # NoKey
  /\ signed' = signed \cup {k}
  /\ UNCHANGED <<status, created, issuer, rotation, gone, overtaken>>

(* rotate_key reads the active key ... *)
RotateRead(r) ==
  /\ rotation[r].at = "idle"
  /\ rotation' = [rotation EXCEPT ![r] = [at |-> "write", old |-> LoadActive]]
  /\ UNCHANGED <<status, created, issuer, signed, gone, overtaken>>

(* ... and writes: rotate, or save when there was none. *)
RotateWrite(r) ==
  /\ rotation[r].at = "write"
  /\ \E new \in Keys :
       IF rotation[r].old = NoKey THEN Save(new) ELSE Rotate(rotation[r].old, new)
  /\ rotation' = [rotation EXCEPT ![r].at = "done"]
  /\ UNCHANGED <<issuer, signed, gone, overtaken>>

RotateFails(r) ==
  /\ rotation[r].at = "write"
  /\ rotation' = [rotation EXCEPT ![r].at = "done"]
  /\ UNCHANGED <<status, created, issuer, signed, gone, overtaken>>

RevokeKey(k) ==
  /\ RevokeRow(k)
  /\ gone' = gone \cup {k}
  /\ overtaken' = IF \E r \in Rotations : rotation[r] = [at |-> "write", old |-> k]
                  THEN overtaken \cup {k} ELSE overtaken
  /\ UNCHANGED <<issuer, rotation, signed>>

KeyNext ==
  \/ \E s \in Servers : \/ Bootstrap(s) \/ StopServer(s)
                        \/ \E k \in Keys : Sign(s, k)
  \/ \E r \in Rotations : RotateRead(r) \/ RotateWrite(r) \/ RotateFails(r)
  \/ \E k \in Keys : RevokeKey(k)

-----------------------------------------------------------------------------
(* jwks: every key that is not revoked. *)
Published == {k \in Keys : status[k] \in {"active", "retired"}}

(* A relying party can check every token: the key that signed it is in the *)
(* key set of jwks unless an administrator revoked it, however starts,     *)
(* failed stores and rotations of several servers interleave.              *)
SignedKeysPublished == signed \subseteq Published \cup gone

(* A revoked key stays out of the key set, unless a rotate_key that had    *)
(* read it as the active key before then writes it back as retired.        *)
RevokedStaysOut == (gone \ overtaken) \cap Published = {}

(* The key that was stored last. *)
Newest == created[Len(created)]

(* However start-ups and rotations overlap, each from what it read, the    *)
(* key that was stored last is the active one, until it is itself revoked: *)
(* no rotation retires a newer key than its own, and none leaves the       *)
(* provider without a key.                                                 *)
RotationKeepsActive ==
  created # <<>> /\ Newest \notin gone => LoadActive = Newest

(***************************************************************************)
(* Tokens can be checked: a key in use is published, a revoked one is not, *)
(* and a rotation never leaves the provider without one.                   *)
(***************************************************************************)
KeysSound == SignedKeysPublished /\ RevokedStaysOut /\ RotationKeepsActive
=============================================================================
