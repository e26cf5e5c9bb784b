-------------------------------- MODULE Vault --------------------------------
(***************************************************************************)
(* The sensitive evidence vault of one campaign: campaign_key_store.py,    *)
(* sensitive_vault.py and agent_vault_access.py.  Several processes share  *)
(* the key file, the ciphertext and metadata directories and the access    *)
(* log, and take no lock.  One action is the code between two accesses to  *)
(* the files.                                                              *)
(*                                                                         *)
(* The material stored under a handle is named by the handle; a key and a  *)
(* SHA256 are what they stand for, so a ciphertext is the key and the      *)
(* material it was made of.                                                *)
(***************************************************************************)
CONSTANTS
  Processes,
  Handles,     \* fresh handle ids
  Keys,        \* keys that may be generated
  Reads,       \* calls of read_vault_material, told apart by their time
  Contexts,    \* what callers of read_vault_material bring with them
  NoKey, NoFile, Damaged

\* The classes of material that may be stored in the vault.
Classes == {"restricted", "secret", "poc_sensitive", "recipient_only"}

\* roe: campaign and target are those of the rules of engagement and the
\* operator approved them; approval: there is a human approval reference;
\* telling: purpose or artifact kind read like sensitive material.
ASSUME VaultAssumption ==
  /\ Contexts \subseteq [roe: BOOLEAN, grants: SUBSET Classes, approval: BOOLEAN,
                         telling: BOOLEAN]
  /\ NoKey \notin Keys
  /\ NoFile \notin [key: Keys, data: Handles] \union {Damaged}
  /\ NoFile \notin [class: Classes, data: Handles,
                    cipher: [key: Keys, data: Handles] \union {Damaged}]
  /\ Damaged \notin [key: Keys, data: Handles]

VARIABLES
  keyfile,
  generated,   \* every key ever generated (history)
  cipher,      \* cipher[h], the ciphertext file
  metadata,    \* metadata[h], the metadata file
  log,         \* raw-access.jsonl
  proc,        \* what a process is doing
  used,        \* handles given out
  damaged,     \* ciphertext files that were changed behind the vault (history)
  begun,       \* reads begun (history)
  decided,     \* reads that were allowed or denied and are over (history)
  delivered    \* what reads returned (history)

files == <<keyfile, cipher, metadata, log>>
history == <<generated, used, damaged, begun, decided, delivered>>
vaultVars == <<files, proc, history>>

Ciphertexts == [key: Keys, data: Handles] \union {Damaged}
Records == [class: Classes, data: Handles, cipher: Ciphertexts]
Requests == [read: Reads, h: Handles, class: Classes, context: Contexts]

Idle == [pc |-> "idle"]
Open(key) == [pc |-> "open", key |-> key]
At(p, pc) == proc[p].pc = pc

-----------------------------------------------------------------------------
(* get_or_create_key *)

\* Two processes may both find no key file; each generates a key and the
\* file keeps the one written last.
GetKey_InMemory(p, new) ==
  /\ At(p, "idle")
  /\ IF keyfile # NoKey
       THEN /\ proc' = [proc EXCEPT ![p] = Open(keyfile)]
            /\ UNCHANGED generated
       ELSE /\ new \notin generated
            /\ generated' = generated \union {new}
            /\ proc' = [proc EXCEPT ![p] = Open(new)]
  /\ UNCHANGED <<files, used, damaged, begun, decided, delivered>>
GetKey(p, new) ==
  /\ At(p, "idle")
  /\ IF keyfile # NoKey
       THEN /\ proc' = [proc EXCEPT ![p] = Open(keyfile)]
            /\ UNCHANGED generated
       ELSE /\ new \notin generated
            /\ generated' = generated \union {new}
            /\ proc' = [proc EXCEPT ![p] = [pc |-> "newkey", key |-> new]]
  /\ UNCHANGED <<files, used, damaged, begun, decided, delivered>>

WriteKey(p) ==
  /\ At(p, "newkey")
  /\ keyfile' = proc[p].key
  /\ proc' = [proc EXCEPT ![p] = Open(proc[p].key)]
  /\ UNCHANGED <<cipher, metadata, log, history>>

-----------------------------------------------------------------------------
(* store *)

\* Material that is public, or must not be stored, is refused before this.
StoreCiphertext(p, h, class) ==
  /\ At(p, "open")
  /\ h \notin used
  /\ used' = used \union {h}
  /\ cipher' = [cipher EXCEPT ![h] = [key |-> proc[p].key, data |-> h]]
  /\ proc' = [proc EXCEPT ![p] =
                [pc |-> "stored", key |-> proc[p].key, h |-> h, class |-> class]]
  /\ UNCHANGED <<keyfile, metadata, log, generated, damaged, begun, decided, delivered>>

\* The record has the SHA256 of the ciphertext as it is on disk by now.
StoreMetadata(p) ==
  /\ At(p, "stored")
  /\ metadata' = [metadata EXCEPT ![proc[p].h] =
       [class |-> proc[p].class, data |-> proc[p].h, cipher |-> cipher[proc[p].h]]]
  /\ proc' = [proc EXCEPT ![p] = Open(proc[p].key)]
  /\ UNCHANGED <<keyfile, cipher, log, history>>

\* The purpose turns out to be too long, or a write fails: the ciphertext stays.
StoreFails(p) ==
  /\ At(p, "stored")
  /\ proc' = [proc EXCEPT ![p] = Open(proc[p].key)]
  /\ UNCHANGED <<files, history>>

-----------------------------------------------------------------------------
(* read_vault_material *)

\* The material needs a human approval of its own.
NeedsApproval(class) == class \in {"poc_sensitive", "recipient_only"}

\* The access that a context grants to material of a class.
Granted(context, class) ==
  /\ class \in context.grants
  /\ NeedsApproval(class) => context.approval

\* append_access_log refuses a record that reads like sensitive material, as
\* one with the name of the class recipient_only does.
Loggable(request) == request.class # "recipient_only" /\ ~request.context.telling

Decided(p) ==
  /\ proc' = [proc EXCEPT ![p] = Open(proc[p].key)]
  /\ decided' = decided \union
       {[read |-> proc[p].request.read, h |-> proc[p].request.h,
         class |-> proc[p].request.class]}

\* read_vault_material up to the reading of the ciphertext.  A handle that
\* is not on record, or has another class there, raises without a word.
RequestRead(p, request) ==
  LET next(pc) == [proc EXCEPT ![p] =
        [pc |-> pc, key |-> proc[p].key, request |-> request]]
      record == metadata[request.h]
  IN /\ At(p, "open")
     /\ request.read \notin begun
     /\ begun' = begun \union {request.read}
     /\ \/ /\ ~request.context.roe
           /\ proc' = next("denied")
        \/ /\ request.context.roe
           /\ record # NoFile => record.class # request.class
           /\ UNCHANGED proc
        \/ /\ request.context.roe
           /\ record # NoFile
           /\ record.class = request.class
           /\ proc' = next(IF Granted(request.context, record.class)
                           THEN "check" ELSE "denied")
     /\ UNCHANGED <<files, generated, used, damaged, decided, delivered>>

\* read_raw compares the SHA256 of the ciphertext with the metadata ...
CheckCiphertext(p) ==
  /\ At(p, "check")
  /\ LET h == proc[p].request.h IN
       IF cipher[h] = metadata[h].cipher
         THEN proc' = [proc EXCEPT ![p].pc = "decrypt"] /\ UNCHANGED decided
         ELSE Decided(p)
  /\ UNCHANGED <<files, generated, used, damaged, begun, delivered>>

\* ... and reads it again to decrypt it; the file may have changed.
Plaintext_Unchecked(p, c) ==
  c # Damaged /\ c.key = proc[p].key
Plaintext(p, c) ==
  c # Damaged /\ c.key = proc[p].key /\ c.data = metadata[proc[p].request.h].data

Decrypt(p) ==
  /\ At(p, "decrypt")
  /\ LET c == cipher[proc[p].request.h] IN
       IF Plaintext(p, c)
         THEN /\ proc' = [proc EXCEPT ![p] =
                   [pc |-> "allowed", key |-> @.key, request |-> @.request,
                    payload |-> c.data]]
              /\ UNCHANGED decided
         ELSE Decided(p)
  /\ UNCHANGED <<files, generated, used, damaged, begun, delivered>>

Entry(request, decision) ==
  [read |-> request.read, h |-> request.h, decision |-> decision]

\* The record is appended, or refused with an exception; then a denied read
\* raises.
LogDenied(p) ==
  /\ At(p, "denied")
  /\ log' = IF Loggable(proc[p].request)
              THEN log \union {Entry(proc[p].request, "denied")} ELSE log
  /\ Decided(p)
  /\ UNCHANGED <<keyfile, cipher, metadata, generated, used, damaged, begun, delivered>>

\* The record is appended, or refused with an exception; then an allowed
\* read returns.
Deliver(p) ==
  delivered' = delivered \union
    {[read |-> proc[p].request.read, h |-> proc[p].request.h,
      context |-> proc[p].request.context, payload |-> proc[p].payload]}
LogAllowed_BestEffort(p) ==
  /\ At(p, "allowed")
  /\ log' = IF Loggable(proc[p].request)
              THEN log \union {Entry(proc[p].request, "allowed")} ELSE log
  /\ Deliver(p)
  /\ Decided(p)
  /\ UNCHANGED <<keyfile, cipher, metadata, generated, used, damaged, begun>>
LogAllowed(p) ==
  /\ At(p, "allowed")
  /\ IF Loggable(proc[p].request)
       THEN /\ log' = log \union {Entry(proc[p].request, "allowed")}
            /\ Deliver(p)
       ELSE UNCHANGED <<log, delivered>>
  /\ Decided(p)
  /\ UNCHANGED <<keyfile, cipher, metadata, generated, used, damaged, begun>>

-----------------------------------------------------------------------------
(* The surroundings *)

\* A process ends anywhere; a later one may start in its place.
Exit(p) ==
  /\ ~At(p, "idle")
  /\ proc' = [proc EXCEPT ![p] = Idle]
  /\ UNCHANGED <<files, history>>

\* A ciphertext file is damaged, or replaced by another one.
Damage(h, c) ==
  /\ cipher[h] # NoFile
  /\ h \notin damaged
  /\ c \in {Damaged} \union {cipher[g] : g \in used \ {h}}
  /\ damaged' = damaged \union {h}
  /\ cipher' = [cipher EXCEPT ![h] = c]
  /\ UNCHANGED <<keyfile, metadata, log, proc, generated, used, begun, decided, delivered>>

-----------------------------------------------------------------------------

VaultInit ==
  /\ keyfile = NoKey
  /\ generated = {}
  /\ cipher = [h \in Handles |-> NoFile]
  /\ metadata = [h \in Handles |-> NoFile]
  /\ log = {}
  /\ proc = [p \in Processes |-> Idle]
  /\ used = {} /\ damaged = {} /\ begun = {} /\ decided = {} /\ delivered = {}

VaultNext ==
  \/ \E p \in Processes :
       \/ \E new \in Keys : GetKey(p, new)
       \/ WriteKey(p)
       \/ \E h \in Handles, class \in Classes : StoreCiphertext(p, h, class)
       \/ StoreMetadata(p)
       \/ StoreFails(p)
       \/ \E request \in Requests : RequestRead(p, request)
       \/ CheckCiphertext(p)
       \/ Decrypt(p)
       \/ LogDenied(p)
       \/ LogAllowed(p)
       \/ Exit(p)
  \/ \E h \in Handles, c \in Ciphertexts : Damage(h, c)

VaultSpec == VaultInit /\ [][VaultNext]_vaultVars

-----------------------------------------------------------------------------
(* Properties *)

(***************************************************************************)
(* Type invariant: the files, and what a process holds of them.            *)
(***************************************************************************)
ProcessStates ==
  {Idle}
  \union [pc: {"newkey", "open"}, key: Keys]
  \union [pc: {"stored"}, key: Keys, h: Handles, class: Classes]
  \union [pc: {"denied", "check", "decrypt"}, key: Keys, request: Requests]
  \union [pc: {"allowed"}, key: Keys, request: Requests, payload: Handles]
VaultTypeOK ==
  /\ keyfile \in Keys \union {NoKey}
  /\ cipher \in [Handles -> Ciphertexts \union {NoFile}]
  /\ metadata \in [Handles -> Records \union {NoFile}]
  /\ log \subseteq [read: Reads, h: Handles, decision: {"allowed", "denied"}]
  /\ proc \in [Processes -> ProcessStates]
  /\ generated \subseteq Keys
  /\ used \subseteq Handles /\ damaged \subseteq Handles
  /\ begun \subseteq Reads
  /\ decided \subseteq [read: Reads, h: Handles, class: Classes]
  /\ delivered \subseteq [read: Reads, h: Handles, context: Contexts, payload: Handles]

(***************************************************************************)
(* A read returns the material that was stored under its handle, or        *)
(* nothing: also when the ciphertext was replaced or damaged, by the key   *)
(* of another process or between two looks at the file.                    *)
(***************************************************************************)
ReadsReturnWhatWasStored == \A d \in delivered : d.payload = d.h

(***************************************************************************)
(* No material is handed out before it is on record that it was, and only  *)
(* to a context whose rules of engagement and grants cover the class it    *)
(* was stored with, whatever class its handle names.                       *)
(***************************************************************************)
DeliveriesAreGrantedAndLogged ==
  \A d \in delivered :
    /\ Entry(d, "allowed") \in log
    /\ d.context.roe
    /\ metadata[d.h] # NoFile
    /\ Granted(d.context, metadata[d.h].class)

(***************************************************************************)
(* A handle that is on record leads to its ciphertext, whenever a process  *)
(* was killed; and as long as only one key was ever generated, the key     *)
(* file has the key for it.                                                *)
(***************************************************************************)
ListedMaterialIsNotLost ==
  \A h \in Handles \ damaged :
    metadata[h] # NoFile =>
      /\ cipher[h] # NoFile /\ cipher[h] = metadata[h].cipher
      /\ \A k \in Keys : generated = {k} => keyfile = k /\ cipher[h].key = k

(***************************************************************************)
(* docs/sensitive-evidence-vault.md: access goes through agent_vault_access*)
(* "which logs every allowed or denied read"; here, every read of material *)
(* that is on record, by the handle that store returned.                   *)
(***************************************************************************)
EveryReadIsLogged ==
  \A q \in decided :
    metadata[q.h] # NoFile /\ metadata[q.h].class = q.class =>
      \E e \in log : e.read = q.read

=============================================================================
