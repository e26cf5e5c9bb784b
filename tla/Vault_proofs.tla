---------------------------- MODULE Vault_proofs ----------------------------
(***************************************************************************)
(* Proofs about the vault, for any number of processes, handles, keys and  *)
(* reads, and any contexts.  VInv says of every file and of every process  *)
(* what a read that is still to come relies on.                            *)
(***************************************************************************)
EXTENDS Vault, TLAPS

\* Whatever was encrypted was encrypted with a key that was generated, and
\* nothing is encrypted before some key is in the key file.
KeysAreKept ==
  /\ keyfile \in generated \union {NoKey}
  /\ \A p \in Processes :
       /\ ~At(p, "idle") => proc[p].key \in generated
       /\ ~At(p, "idle") /\ ~At(p, "newkey") => keyfile # NoKey
  /\ \A h \in Handles :
       cipher[h] # NoFile =>
         /\ keyfile # NoKey
         /\ cipher[h] # Damaged => cipher[h].key \in generated

\* A handle on record has its ciphertext.
FilesAreSound ==
  \A h \in Handles :
    /\ cipher[h] # NoFile => h \in used
    /\ cipher[h] = Damaged => h \in damaged
    /\ metadata[h] # NoFile =>
         /\ cipher[h] # NoFile
         /\ metadata[h].data = h
         /\ h \notin damaged => cipher[h] = metadata[h].cipher

\* A process that stores is the only one to write that record; one that
\* reads was granted the class on record.
ProcessesAreSound ==
  \A p \in Processes :
    /\ At(p, "stored") =>
         /\ cipher[proc[p].h] # NoFile
         /\ metadata[proc[p].h] = NoFile
         /\ \A q \in Processes \ {p} : At(q, "stored") => proc[q].h # proc[p].h
    /\ proc[p].pc \in {"check", "decrypt", "allowed"} =>
         LET request == proc[p].request IN
           /\ request.context.roe
           /\ metadata[request.h] # NoFile
           /\ Granted(request.context, metadata[request.h].class)
    /\ At(p, "allowed") => proc[p].payload = proc[p].request.h

DeliveriesAreSound == ReadsReturnWhatWasStored /\ DeliveriesAreGrantedAndLogged

VInv ==
  /\ VaultTypeOK
  /\ KeysAreKept
  /\ FilesAreSound
  /\ ProcessesAreSound
  /\ DeliveriesAreSound

-----------------------------------------------------------------------------
(* What a process holds *)

\* The fields of a process's record go with where it is.
LEMMA ProcessFields ==
  ASSUME VaultTypeOK, NEW p \in Processes
  PROVE  /\ ~At(p, "idle") => proc[p].key \in Keys
         /\ At(p, "stored") => proc[p].h \in Handles /\ proc[p].class \in Classes
         /\ proc[p].pc \in {"denied", "check", "decrypt", "allowed"} =>
              proc[p].request \in Requests
         /\ At(p, "allowed") => proc[p].payload \in Handles
         /\ At(p, "check") =>
              proc[p] = [pc |-> "check", key |-> proc[p].key, request |-> proc[p].request]
  BY DEF VaultTypeOK, ProcessStates, Idle, At

-----------------------------------------------------------------------------
(* Every action keeps the invariant *)

\* A new key is counted before it is used.
LEMMA GetKeyKeepsVInv ==
  ASSUME VInv, NEW p \in Processes, NEW new \in Keys, GetKey(p, new)
  PROVE  VInv'
  <1>1. UNCHANGED <<files, used, damaged, begun, decided, delivered>>
    BY DEF GetKey
  <1>2. /\ generated \subseteq generated' /\ generated' \subseteq Keys
        /\ \E k \in generated' :
             \/ proc' = [proc EXCEPT ![p] = Open(k)] /\ keyfile # NoKey
             \/ proc' = [proc EXCEPT ![p] = [pc |-> "newkey", key |-> k]]
    BY DEF GetKey, VInv, VaultTypeOK, KeysAreKept
  <1>3. PICK k \in generated' :
             \/ proc' = [proc EXCEPT ![p] = Open(k)] /\ keyfile # NoKey
             \/ proc' = [proc EXCEPT ![p] = [pc |-> "newkey", key |-> k]]
    BY <1>2
  <1>4. VaultTypeOK'
    BY <1>1, <1>2, <1>3 DEF VInv, VaultTypeOK, ProcessStates, Open, files
  <1>5. KeysAreKept'
    BY <1>1, <1>2, <1>3 DEF VInv, VaultTypeOK, KeysAreKept, Open, At, files
  <1>6. ProcessesAreSound'
    BY <1>1, <1>3 DEF VInv, VaultTypeOK, ProcessesAreSound, Open, At, files
  <1>7. FilesAreSound' /\ DeliveriesAreSound'
    BY <1>1 DEF VInv, FilesAreSound, DeliveriesAreSound, ReadsReturnWhatWasStored,
                DeliveriesAreGrantedAndLogged, files
  <1>. QED
    BY <1>4, <1>5, <1>6, <1>7 DEF VInv

\* Writing a key only replaces a key.
LEMMA WriteKeyKeepsVInv ==
  ASSUME VInv, NEW p \in Processes, WriteKey(p)
  PROVE  VInv'
  <1>1. proc[p].key \in Keys /\ proc[p].key \in generated /\ proc[p].key # NoKey
    BY ProcessFields, VaultAssumption DEF VInv, KeysAreKept, WriteKey, At
  <1>2. /\ keyfile' = proc[p].key
        /\ proc' = [proc EXCEPT ![p] = Open(proc[p].key)]
        /\ UNCHANGED <<cipher, metadata, log, history>>
    BY DEF WriteKey
  <1>3. VaultTypeOK'
    BY <1>1, <1>2 DEF VInv, VaultTypeOK, ProcessStates, Open, history
  <1>4. KeysAreKept'
    BY <1>1, <1>2 DEF VInv, VaultTypeOK, KeysAreKept, Open, At, history
  <1>5. ProcessesAreSound'
    BY <1>2 DEF VInv, VaultTypeOK, ProcessesAreSound, Open, At
  <1>6. FilesAreSound' /\ DeliveriesAreSound'
    BY <1>2 DEF VInv, FilesAreSound, DeliveriesAreSound, ReadsReturnWhatWasStored,
                DeliveriesAreGrantedAndLogged, history
  <1>. QED
    BY <1>3, <1>4, <1>5, <1>6 DEF VInv

\* A fresh handle is on no record and held by no other process.
LEMMA StoreCiphertextKeepsVInv ==
  ASSUME VInv, NEW p \in Processes, NEW h \in Handles, NEW class \in Classes,
         StoreCiphertext(p, h, class)
  PROVE  VInv'
  <1> DEFINE c == [key |-> proc[p].key, data |-> h]
             mine == [pc |-> "stored", key |-> proc[p].key, h |-> h, class |-> class]
  <1>1. /\ proc[p].key \in Keys /\ proc[p].key \in generated /\ keyfile # NoKey
        /\ c \in Ciphertexts /\ c # Damaged /\ c # NoFile
    <2>1. proc[p].key \in Keys /\ proc[p].key \in generated /\ keyfile # NoKey
      BY ProcessFields DEF VInv, KeysAreKept, StoreCiphertext, At
    <2>2. c \in [key: Keys, data: Handles]
      BY <2>1
    <2>. QED
      BY <2>1, <2>2, VaultAssumption DEF Ciphertexts
  <1>2. /\ h \notin used
        /\ used' = used \union {h}
        /\ cipher' = [cipher EXCEPT ![h] = c]
        /\ proc' = [proc EXCEPT ![p] = mine]
        /\ UNCHANGED <<keyfile, metadata, log, generated, damaged, begun, decided, delivered>>
    BY DEF StoreCiphertext
  <1>3. metadata[h] = NoFile /\ cipher[h] = NoFile
    BY <1>2 DEF VInv, FilesAreSound
  <1>4. \A q \in Processes : At(q, "stored") => proc[q].h # h /\ proc[q].h \in Handles
    BY <1>3, ProcessFields DEF VInv, ProcessesAreSound
  <1>5. VaultTypeOK'
    BY <1>1, <1>2 DEF VInv, VaultTypeOK, ProcessStates
  <1>6. KeysAreKept'
    BY <1>1, <1>2 DEF VInv, VaultTypeOK, KeysAreKept, At
  <1>7. FilesAreSound'
    BY <1>1, <1>2, <1>3 DEF VInv, VaultTypeOK, FilesAreSound
  <1>8. ProcessesAreSound'
    <2> SUFFICES ASSUME NEW q \in Processes
                 PROVE  ProcessesAreSound!(q)'
      BY DEF ProcessesAreSound
    <2>1. CASE q = p
      BY <1>1, <1>2, <1>3, <1>4, <2>1 DEF VInv, VaultTypeOK, At
    <2>2. CASE q # p
      BY <1>1, <1>2, <1>3, <1>4, <2>2 DEF VInv, VaultTypeOK, ProcessesAreSound, At
    <2>. QED
      BY <2>1, <2>2
  <1>9. DeliveriesAreSound'
    BY <1>2 DEF VInv, DeliveriesAreSound, ReadsReturnWhatWasStored,
                DeliveriesAreGrantedAndLogged
  <1>. QED
    BY <1>5, <1>6, <1>7, <1>8, <1>9 DEF VInv

\* The record is new, so that no read or delivery relied on another one.
LEMMA StoreMetadataKeepsVInv ==
  ASSUME VInv, NEW p \in Processes, StoreMetadata(p)
  PROVE  VInv'
  <1> DEFINE h == proc[p].h
             record == [class |-> proc[p].class, data |-> h, cipher |-> cipher[h]]
  <1>1. /\ h \in Handles /\ proc[p].class \in Classes /\ proc[p].key \in Keys
        /\ proc[p].key \in generated /\ keyfile # NoKey
        /\ cipher[h] # NoFile /\ metadata[h] = NoFile
        /\ \A q \in Processes \ {p} : At(q, "stored") => proc[q].h # h
    BY ProcessFields DEF VInv, KeysAreKept, ProcessesAreSound, StoreMetadata, At
  <1>2. cipher[h] \in Ciphertexts /\ record \in Records /\ record # NoFile
    BY <1>1, VaultAssumption DEF VInv, VaultTypeOK, Records, Ciphertexts
  <1>3. /\ metadata' = [metadata EXCEPT ![h] = record]
        /\ proc' = [proc EXCEPT ![p] = Open(proc[p].key)]
        /\ UNCHANGED <<keyfile, cipher, log, history>>
    BY DEF StoreMetadata
  <1>4. record.data = h /\ record.cipher = cipher[h]
    OBVIOUS
  <1> HIDE DEF record, h
  <1>5. VaultTypeOK'
    BY <1>1, <1>2, <1>3 DEF VInv, VaultTypeOK, ProcessStates, Open, history
  <1>6. KeysAreKept'
    BY <1>1, <1>3 DEF VInv, VaultTypeOK, KeysAreKept, Open, At, history
  <1>7. FilesAreSound'
    BY <1>1, <1>2, <1>3, <1>4 DEF VInv, VaultTypeOK, FilesAreSound, history
  <1>8. ProcessesAreSound'
    <2> SUFFICES ASSUME NEW q \in Processes
                 PROVE  ProcessesAreSound!(q)'
      BY DEF ProcessesAreSound
    <2>1. CASE q = p
      BY <1>3, <2>1 DEF VInv, VaultTypeOK, Open, At
    <2>2. CASE q # p
      <3>1. proc'[q] = proc[q] /\ cipher' = cipher
        BY <1>3, <2>2 DEF VInv, VaultTypeOK
      <3>2. \A g \in Handles : metadata[g] # NoFile => metadata'[g] = metadata[g]
        BY <1>1, <1>3 DEF VInv, VaultTypeOK
      <3>3. CASE At(q, "stored")
        <4>1. proc[q].h \in Handles /\ proc[q].h # h
          BY <1>1, <2>2, <3>3, ProcessFields DEF VInv
        <4>2. metadata'[proc[q].h] = metadata[proc[q].h]
          BY <1>3, <4>1 DEF VInv, VaultTypeOK
        <4>3. \A r \in Processes : At(r, "stored")' => At(r, "stored") /\ proc'[r] = proc[r]
          BY <1>3 DEF VInv, VaultTypeOK, Open, At
        <4>. QED
          BY <3>1, <3>3, <4>2, <4>3 DEF VInv, ProcessesAreSound, At
      <3>4. CASE ~At(q, "stored")
        <4>1. proc[q].pc \in {"check", "decrypt", "allowed"} =>
                proc[q].request.h \in Handles
          BY ProcessFields DEF VInv, Requests
        <4>. QED
          BY <3>1, <3>2, <3>4, <4>1 DEF VInv, ProcessesAreSound, At
      <3>. QED
        BY <3>3, <3>4
    <2>. QED
      BY <2>1, <2>2
  <1>9. DeliveriesAreSound'
    BY <1>1, <1>3
    DEF VInv, VaultTypeOK, DeliveriesAreSound, ReadsReturnWhatWasStored,
        DeliveriesAreGrantedAndLogged, history
  <1>. QED
    BY <1>5, <1>6, <1>7, <1>8, <1>9 DEF VInv

\* A process that goes on with its key, and at most reads what it was
\* granted, disturbs nothing; the log and the deliveries may grow meanwhile.
LEMMA MoveKeepsVInv ==
  ASSUME VInv, NEW p \in Processes, NEW s \in ProcessStates,
         UNCHANGED <<keyfile, cipher, metadata, generated, used, damaged>>,
         proc' = [proc EXCEPT ![p] = s],
         s.pc # "idle" => /\ ~At(p, "idle") /\ ~At(p, "newkey")
                          /\ s.key = proc[p].key
                          /\ s.pc # "stored",
         s.pc \in {"check", "decrypt", "allowed"} =>
           /\ s.request.context.roe
           /\ metadata[s.request.h] # NoFile
           /\ Granted(s.request.context, metadata[s.request.h].class),
         s.pc = "allowed" => s.payload = s.request.h,
         VaultTypeOK', DeliveriesAreSound'
  PROVE  VInv'
  <1>1. KeysAreKept'
    BY DEF VInv, VaultTypeOK, KeysAreKept, At
  <1>2. FilesAreSound'
    BY DEF VInv, FilesAreSound
  <1>3. ProcessesAreSound'
    <2> SUFFICES ASSUME NEW q \in Processes
                 PROVE  ProcessesAreSound!(q)'
      BY DEF ProcessesAreSound
    <2>1. CASE q = p
      <3>1. proc'[q] = s
        BY <2>1 DEF VInv, VaultTypeOK
      <3>2. s.pc # "stored"
        OBVIOUS
      <3>. QED
        BY <3>1, <3>2 DEF At
    <2>2. CASE q # p
      <3>1. proc'[q] = proc[q]
        BY <2>2 DEF VInv, VaultTypeOK
      <3>2. \A r \in Processes : At(r, "stored")' => At(r, "stored") /\ proc'[r] = proc[r]
        BY DEF VInv, VaultTypeOK, At
      <3>. QED
        BY <3>1, <3>2 DEF VInv, ProcessesAreSound, At
    <2>. QED
      BY <2>1, <2>2
  <1>. QED
    BY <1>1, <1>2, <1>3 DEF VInv

\* Only a granted request goes on to the ciphertext.
LEMMA RequestReadKeepsVInv ==
  ASSUME VInv, NEW p \in Processes, NEW request \in Requests, RequestRead(p, request)
  PROVE  VInv'
  <1> DEFINE next(pc) == [pc |-> pc, key |-> proc[p].key, request |-> request]
             record == metadata[request.h]
  <1>1. /\ At(p, "open") /\ proc[p].key \in Keys
        /\ UNCHANGED <<files, generated, used, damaged, decided, delivered>>
        /\ begun' = begun \union {request.read} /\ request.read \in Reads
    BY ProcessFields DEF VInv, RequestRead, At, Requests
  <1>2. DeliveriesAreSound'
    BY <1>1 DEF VInv, DeliveriesAreSound, ReadsReturnWhatWasStored,
                DeliveriesAreGrantedAndLogged, files
  <1>3. CASE UNCHANGED proc
    <2>1. VaultTypeOK'
      BY <1>1, <1>3 DEF VInv, VaultTypeOK, files
    <2>. QED
      BY <1>1, <1>2, <1>3, <2>1
      DEF VInv, KeysAreKept, FilesAreSound, ProcessesAreSound, At, files
  <1>4. ASSUME NEW pc \in {"denied", "check"},
               proc' = [proc EXCEPT ![p] = next(pc)],
               pc = "check" => /\ request.context.roe /\ record # NoFile
                               /\ Granted(request.context, record.class)
        PROVE  VInv'
    <2>1. next(pc) \in ProcessStates
      BY <1>1 DEF ProcessStates
    <2>2. VaultTypeOK'
      BY <1>1, <1>4, <2>1 DEF VInv, VaultTypeOK, files
    <2>3. next(pc).pc = pc /\ next(pc).key = proc[p].key /\ next(pc).request = request
      OBVIOUS
    <2> HIDE DEF next
    <2>. QED
      BY <1>1, <1>2, <1>4, <2>1, <2>2, <2>3, MoveKeepsVInv DEF files, At
  <1>5. \/ UNCHANGED proc
        \/ proc' = [proc EXCEPT ![p] = next("denied")]
        \/ /\ request.context.roe /\ record # NoFile
           /\ Granted(request.context, record.class)
           /\ proc' = [proc EXCEPT ![p] = next("check")]
    BY DEF RequestRead
  <1> HIDE DEF next, record
  <1>. QED
    BY <1>3, <1>4, <1>5

\* Back to where the next command begins.
LEMMA OpenKeepsVInv ==
  ASSUME VInv, NEW p \in Processes, ~At(p, "idle"), ~At(p, "newkey"),
         UNCHANGED <<keyfile, cipher, metadata, generated, used, damaged, begun>>,
         log' \subseteq [read: Reads, h: Handles, decision: {"allowed", "denied"}],
         delivered' \subseteq [read: Reads, h: Handles, context: Contexts, payload: Handles],
         proc[p].request \in Requests, Decided(p), DeliveriesAreSound'
  PROVE  VInv'
  <1>1. Open(proc[p].key) \in ProcessStates
    BY ProcessFields DEF VInv, Open, ProcessStates
  <1>2. proc' = [proc EXCEPT ![p] = Open(proc[p].key)]
    BY DEF Decided
  <1>3. decided' \subseteq [read: Reads, h: Handles, class: Classes]
    BY DEF Decided, VInv, VaultTypeOK, Requests
  <1>4. VaultTypeOK'
    BY <1>1, <1>2, <1>3 DEF VInv, VaultTypeOK
  <1>5. Open(proc[p].key).pc = "open" /\ Open(proc[p].key).key = proc[p].key
    BY DEF Open
  <1>. QED
    BY <1>1, <1>2, <1>4, <1>5, MoveKeepsVInv

\* The deliveries stay sound while nothing is delivered and the log grows.
LEMMA DeliveriesStaySound ==
  ASSUME VInv, UNCHANGED <<metadata, delivered>>, log \subseteq log'
  PROVE  DeliveriesAreSound'
  BY DEF VInv, DeliveriesAreSound, ReadsReturnWhatWasStored,
         DeliveriesAreGrantedAndLogged

\* Checking the ciphertext changes no file.
LEMMA CheckCiphertextKeepsVInv ==
  ASSUME VInv, NEW p \in Processes, CheckCiphertext(p)
  PROVE  VInv'
  <1> DEFINE s == [pc |-> "decrypt", key |-> proc[p].key, request |-> proc[p].request]
  <1>1. /\ At(p, "check") /\ proc[p].request \in Requests /\ proc[p].key \in Keys
        /\ proc[p] = [pc |-> "check", key |-> proc[p].key, request |-> proc[p].request]
        /\ UNCHANGED <<files, generated, used, damaged, begun, delivered>>
    BY ProcessFields DEF VInv, CheckCiphertext, At
  <1>2. DeliveriesAreSound'
    BY <1>1, DeliveriesStaySound DEF files
  <1>3. CASE Decided(p)
    BY <1>1, <1>2, <1>3, OpenKeepsVInv DEF files, At, VInv, VaultTypeOK
  <1>4. CASE proc' = [proc EXCEPT ![p].pc = "decrypt"] /\ UNCHANGED decided
    <2>1. [proc[p] EXCEPT !.pc = "decrypt"] = s
      BY <1>1
    <2>2. proc' = [proc EXCEPT ![p] = s]
      BY <1>4, <2>1
    <2>3. s \in ProcessStates
      BY <1>1 DEF ProcessStates
    <2>4. VaultTypeOK'
      BY <1>1, <1>4, <2>2, <2>3 DEF VInv, VaultTypeOK, files
    <2>5. /\ proc[p].request.context.roe
          /\ metadata[proc[p].request.h] # NoFile
          /\ Granted(proc[p].request.context, metadata[proc[p].request.h].class)
      BY <1>1 DEF VInv, ProcessesAreSound, At
    <2>6. s.pc = "decrypt" /\ s.key = proc[p].key /\ s.request = proc[p].request
      OBVIOUS
    <2> HIDE DEF s
    <2>. QED
      BY <1>1, <1>2, <2>2, <2>3, <2>4, <2>5, <2>6, MoveKeepsVInv DEF files, At
  <1>. QED
    BY <1>3, <1>4 DEF CheckCiphertext

\* What was decrypted is what the record says, and so what was stored.
LEMMA DecryptKeepsVInv ==
  ASSUME VInv, NEW p \in Processes, Decrypt(p)
  PROVE  VInv'
  <1> DEFINE c == cipher[proc[p].request.h]
             s == [pc |-> "allowed", key |-> proc[p].key, request |-> proc[p].request,
                   payload |-> c.data]
  <1>1. /\ At(p, "decrypt") /\ proc[p].request \in Requests /\ proc[p].key \in Keys
        /\ UNCHANGED <<files, generated, used, damaged, begun, delivered>>
    BY ProcessFields DEF VInv, Decrypt, At
  <1>2. DeliveriesAreSound'
    BY <1>1, DeliveriesStaySound DEF files
  <1>3. CASE Decided(p)
    BY <1>1, <1>2, <1>3, OpenKeepsVInv DEF files, At, VInv, VaultTypeOK
  <1>4. CASE /\ Plaintext(p, c)
             /\ proc' = [proc EXCEPT ![p] = s]
             /\ UNCHANGED decided
    <2>1. /\ proc[p].request.context.roe
          /\ proc[p].request.h \in Handles
          /\ metadata[proc[p].request.h] # NoFile
          /\ Granted(proc[p].request.context, metadata[proc[p].request.h].class)
      BY <1>1 DEF VInv, ProcessesAreSound, At, Requests
    <2>2. c.data = proc[p].request.h
      BY <1>4, <2>1 DEF Plaintext, VInv, FilesAreSound
    <2>3. s \in ProcessStates
      BY <1>1, <2>1, <2>2 DEF ProcessStates
    <2>4. VaultTypeOK'
      BY <1>1, <1>4, <2>3 DEF VInv, VaultTypeOK, files
    <2>5. /\ s.pc = "allowed" /\ s.key = proc[p].key /\ s.request = proc[p].request
          /\ s.payload = s.request.h
      BY <2>2
    <2> HIDE DEF s
    <2>. QED
      BY <1>1, <1>2, <1>4, <2>1, <2>3, <2>4, <2>5, MoveKeepsVInv DEF files, At
  <1>. QED
    BY <1>3, <1>4 DEF Decrypt

\* A denial adds at most its record.
LEMMA LogDeniedKeepsVInv ==
  ASSUME VInv, NEW p \in Processes, LogDenied(p)
  PROVE  VInv'
  <1>1. /\ At(p, "denied") /\ proc[p].request \in Requests /\ Decided(p)
        /\ UNCHANGED <<keyfile, cipher, metadata, generated, used, damaged, begun, delivered>>
        /\ log' \in {log, log \union {Entry(proc[p].request, "denied")}}
    BY ProcessFields DEF VInv, LogDenied, At
  <1>2. DeliveriesAreSound'
    BY <1>1, DeliveriesStaySound
  <1>3. log' \subseteq [read: Reads, h: Handles, decision: {"allowed", "denied"}]
    BY <1>1 DEF Entry, Requests, VInv, VaultTypeOK
  <1>. QED
    BY <1>1, <1>2, <1>3, OpenKeepsVInv DEF At, VInv, VaultTypeOK

\* A delivery comes with its record, and with what was stored.
LEMMA LogAllowedKeepsVInv ==
  ASSUME VInv, NEW p \in Processes, LogAllowed(p)
  PROVE  VInv'
  <1> DEFINE request == proc[p].request
             entry == Entry(request, "allowed")
             d == [read |-> request.read, h |-> request.h,
                   context |-> request.context, payload |-> proc[p].payload]
  <1>1. /\ At(p, "allowed") /\ request \in Requests /\ proc[p].payload \in Handles
        /\ proc[p].payload = request.h /\ Decided(p)
        /\ request.context.roe /\ metadata[request.h] # NoFile
        /\ Granted(request.context, metadata[request.h].class)
        /\ UNCHANGED <<keyfile, cipher, metadata, generated, used, damaged, begun>>
    BY ProcessFields DEF VInv, ProcessesAreSound, LogAllowed, At
  <1>2. CASE UNCHANGED <<log, delivered>>
    <2>1. DeliveriesAreSound'
      BY <1>1, <1>2, DeliveriesStaySound
    <2>. QED
      BY <1>1, <1>2, <2>1, OpenKeepsVInv DEF At, VInv, VaultTypeOK
  <1>3. CASE log' = log \union {entry} /\ delivered' = delivered \union {d}
    <2>1. entry \in [read: Reads, h: Handles, decision: {"allowed", "denied"}]
      BY <1>1 DEF Entry, Requests
    <2>2. d \in [read: Reads, h: Handles, context: Contexts, payload: Handles]
      BY <1>1 DEF Requests
    <2>3. /\ d.payload = d.h /\ d.h = request.h /\ d.context = request.context
          /\ Entry(d, "allowed") = entry
      BY <1>1 DEF Entry
    <2>4. DeliveriesAreSound'
      <3> HIDE DEF d, entry
      <3>1. ReadsReturnWhatWasStored'
        BY <1>3, <2>3 DEF VInv, DeliveriesAreSound, ReadsReturnWhatWasStored
      <3>2. DeliveriesAreGrantedAndLogged'
        BY <1>1, <1>3, <2>3 DEF VInv, DeliveriesAreSound, DeliveriesAreGrantedAndLogged
      <3>. QED
        BY <3>1, <3>2 DEF DeliveriesAreSound
    <2>5. /\ log' \subseteq [read: Reads, h: Handles, decision: {"allowed", "denied"}]
          /\ delivered' \subseteq
               [read: Reads, h: Handles, context: Contexts, payload: Handles]
      BY <1>3, <2>1, <2>2 DEF VInv, VaultTypeOK
    <2>. QED
      BY <1>1, <2>4, <2>5, OpenKeepsVInv DEF At
  <1>. QED
    BY <1>2, <1>3 DEF LogAllowed, Deliver

\* A store that fails leaves a ciphertext that no record names.
LEMMA StoreFailsKeepsVInv ==
  ASSUME VInv, NEW p \in Processes, StoreFails(p)
  PROVE  VInv'
  <1>1. /\ At(p, "stored") /\ proc[p].key \in Keys
        /\ proc' = [proc EXCEPT ![p] = Open(proc[p].key)]
        /\ UNCHANGED <<files, history>>
    BY ProcessFields DEF VInv, StoreFails, At
  <1>2. /\ Open(proc[p].key) \in ProcessStates
        /\ Open(proc[p].key).pc = "open" /\ Open(proc[p].key).key = proc[p].key
    BY <1>1 DEF Open, ProcessStates
  <1>3. VaultTypeOK'
    BY <1>1, <1>2 DEF VInv, VaultTypeOK, files, history
  <1>4. DeliveriesAreSound'
    BY <1>1, DeliveriesStaySound DEF files, history
  <1>. QED
    BY <1>1, <1>2, <1>3, <1>4, MoveKeepsVInv DEF files, history, At

\* A process that ends holds nothing.
LEMMA ExitKeepsVInv ==
  ASSUME VInv, NEW p \in Processes, Exit(p)
  PROVE  VInv'
  <1>1. Idle \in ProcessStates /\ Idle.pc = "idle"
    BY DEF Idle, ProcessStates
  <1>2. /\ proc' = [proc EXCEPT ![p] = Idle]
        /\ UNCHANGED <<files, history>>
    BY DEF Exit
  <1>3. VaultTypeOK'
    BY <1>1, <1>2 DEF VInv, VaultTypeOK, files, history
  <1>4. DeliveriesAreSound'
    BY <1>2, DeliveriesStaySound DEF files, history
  <1>. QED
    BY <1>1, <1>2, <1>3, <1>4, MoveKeepsVInv DEF files, history

\* A file that changes behind the vault is damaged from then on.
LEMMA DamageKeepsVInv ==
  ASSUME VInv, NEW h \in Handles, NEW c \in Ciphertexts, Damage(h, c)
  PROVE  VInv'
  <1>1. /\ cipher[h] # NoFile /\ c # NoFile
        /\ c = Damaged \/ \E g \in Handles : c = cipher[g]
        /\ damaged' = damaged \union {h}
        /\ cipher' = [cipher EXCEPT ![h] = c]
        /\ UNCHANGED <<keyfile, metadata, log, proc, generated, used, begun, decided, delivered>>
    BY VaultAssumption DEF Damage, VInv, VaultTypeOK, Ciphertexts
  <1>2. c # Damaged => c.key \in generated
    BY <1>1 DEF VInv, KeysAreKept
  <1>3. VaultTypeOK'
    BY <1>1 DEF VInv, VaultTypeOK
  <1>4. KeysAreKept'
    BY <1>1, <1>2 DEF VInv, VaultTypeOK, KeysAreKept, At
  <1>5. FilesAreSound'
    BY <1>1, VaultAssumption
    DEF VInv, VaultTypeOK, FilesAreSound
  <1>6. ProcessesAreSound'
    BY <1>1, ProcessFields DEF VInv, VaultTypeOK, ProcessesAreSound, At
  <1>7. DeliveriesAreSound'
    BY <1>1, DeliveriesStaySound
  <1>. QED
    BY <1>3, <1>4, <1>5, <1>6, <1>7 DEF VInv

-----------------------------------------------------------------------------
(* Theorems *)

\* VInv is inductive.
THEOREM VaultInvariant == VaultSpec => []VInv
  <1>1. VaultInit => VInv
    BY VaultAssumption
    DEF VaultInit, VInv, VaultTypeOK, ProcessStates, Idle, KeysAreKept, FilesAreSound,
        ProcessesAreSound, DeliveriesAreSound, ReadsReturnWhatWasStored,
        DeliveriesAreGrantedAndLogged, At
  <1>2. VInv /\ VaultNext => VInv'
    BY GetKeyKeepsVInv, WriteKeyKeepsVInv, StoreCiphertextKeepsVInv,
       StoreMetadataKeepsVInv, StoreFailsKeepsVInv, RequestReadKeepsVInv, CheckCiphertextKeepsVInv,
       DecryptKeepsVInv, LogDeniedKeepsVInv, LogAllowedKeepsVInv, ExitKeepsVInv,
       DamageKeepsVInv
    DEF VaultNext
  <1>3. VInv /\ UNCHANGED vaultVars => VInv'
    BY DEF vaultVars, files, history, VInv, VaultTypeOK, KeysAreKept, FilesAreSound,
           ProcessesAreSound, DeliveriesAreSound, ReadsReturnWhatWasStored,
           DeliveriesAreGrantedAndLogged, At
  <1>. QED
    BY <1>1, <1>2, <1>3, PTL DEF VaultSpec

\* Files and processes keep their shape.
THEOREM VaultTypeCorrectness == VaultSpec => []VaultTypeOK
  <1>1. VInv => VaultTypeOK
    BY DEF VInv
  <1>. QED
    BY <1>1, VaultInvariant, PTL

\* A read returns what was stored under its handle.
THEOREM ReadsAreGenuine == VaultSpec => []ReadsReturnWhatWasStored
  <1>1. VInv => ReadsReturnWhatWasStored
    BY DEF VInv, DeliveriesAreSound
  <1>. QED
    BY <1>1, VaultInvariant, PTL

\* Nothing is handed out without a grant and a record.
THEOREM DeliveriesAreAudited == VaultSpec => []DeliveriesAreGrantedAndLogged
  <1>1. VInv => DeliveriesAreGrantedAndLogged
    BY DEF VInv, DeliveriesAreSound
  <1>. QED
    BY <1>1, VaultInvariant, PTL

\* What is on record is not lost, unless keys were raced for.
THEOREM ListedMaterialIsKept == VaultSpec => []ListedMaterialIsNotLost
  <1>1. VInv => ListedMaterialIsNotLost
    BY DEF VInv, KeysAreKept, FilesAreSound, ListedMaterialIsNotLost
  <1>. QED
    BY <1>1, VaultInvariant, PTL

=============================================================================
