------------------------------ MODULE ConfigStore ------------------------------
(***************************************************************************)
(* The configuration store (config/config_store.cpp) as far as SSH hosts   *)
(* and their credentials go: config.json names the data directory, which   *)
(* holds the database and, in a file of its own, the key that the          *)
(* credentials in the database are encrypted with.                         *)
(*                                                                         *)
(* An operation reads what it needs and then makes its writes one by one,  *)
(* all under the mutex of the store; the process may crash between any     *)
(* two.  SQLite makes a write of the database whole or not at all; a file  *)
(* is truncated first and written then.  The vault of the authenticator is *)
(* kept the same way, under a key and a row of its own.                    *)
(***************************************************************************)
EXTENDS Integers, Sequences

CONSTANTS
  Threads,
  Hosts,
  Directories,  \* values of dataPath
  DefaultDirectory,
  MaxKeys       \* bound: keys made

ASSUME DirectoryAssumption == DefaultDirectory \in Directories /\ MaxKeys \in Nat

VARIABLES
  config,   \* dataPath in config.json, or Torn
  rows,     \* the database of a directory: hosts, those trusted, the vault
  keyFile,  \* vault.key of a directory: a number, 0 if there is none, or TornKey
  keys,     \* keys made so far
  todo,     \* the writes an operation has still to make
  storeMutex,  \* the operation that has mutex_
  owed      \* credentials saved and answered for, and not removed since

storeVars == <<config, rows, keyFile, keys, todo, storeMutex, owed>>

Torn == "torn"
TornKey == -1
NoThread == "nobody"
ASSUME ThreadAssumption == NoThread \notin Threads
NoVault == [h \in {} |-> 0]

StoreInit ==
  /\ config = Torn
  /\ rows = [d \in Directories |-> [hosts |-> {}, trusted |-> {}, vault |-> NoVault]]
  /\ keyFile = [d \in Directories |-> 0]
  /\ keys = 0
  /\ todo = [t \in Threads |-> <<>>]
  /\ storeMutex = NoThread
  /\ owed = {}

\* LoadJsonUnlocked: a file that cannot be parsed gives the defaults.
Directory == IF config = Torn THEN DefaultDirectory ELSE config

Rows == rows[Directory]

-----------------------------------------------------------------------------
(* Writes.                                                                 *)

NoWrite == [to |-> "nothing", dir |-> Directory, text |-> Torn, key |-> 0, row |-> Rows,
            saves |-> {}]
WriteConfig(d) == [NoWrite EXCEPT !.to = "config", !.text = d]
WriteKey(k) == [NoWrite EXCEPT !.to = "key", !.key = k]
WriteRows(r) == [NoWrite EXCEPT !.to = "rows", !.row = r]

\* SaveJsonUnlocked truncates the file, then writes it.
RewriteConfig(d) == <<WriteConfig(Torn), WriteConfig(d)>>

\* The defaults are saved by whoever meets a file that cannot be read.
RepairConfig == IF config = Torn THEN RewriteConfig(DefaultDirectory) ELSE <<>>

\* Mutant: an operation does not wait for the others.
AnyTime == TRUE
StoreFree == storeMutex = NoThread

Begin(t, writes) ==
  /\ StoreFree /\ todo[t] = <<>>
  /\ RepairConfig \o writes # <<>>
  /\ storeMutex' = t
  /\ todo' = [todo EXCEPT ![t] = RepairConfig \o writes]
  /\ UNCHANGED <<config, rows, keyFile>>

MakeWrite(t) ==
  /\ todo[t] # <<>>
  /\ LET w == Head(todo[t]) IN
     /\ config' = IF w.to = "config" THEN w.text ELSE config
     /\ keyFile' = IF w.to = "key" THEN [keyFile EXCEPT ![w.dir] = w.key] ELSE keyFile
     /\ rows' = IF w.to = "rows" THEN [rows EXCEPT ![w.dir] = w.row] ELSE rows
     /\ owed' = IF todo[t] = <<w>> THEN owed \cup w.saves ELSE owed
  /\ todo' = [todo EXCEPT ![t] = Tail(@)]
  /\ storeMutex' = IF Len(todo[t]) = 1 THEN NoThread ELSE storeMutex
  /\ UNCHANGED keys

-----------------------------------------------------------------------------
(* Operations.                                                             *)

Without(vault, h) == [k \in DOMAIN vault \ {h} |-> vault[k]]

\* The list a browser sends replaces the hosts, the fingerprints included;
\* then the credentials of hosts that are gone are removed.  (A list with a
\* jump host that is missing, chained or not SSH is refused.)
SaveSshHosts(t, list, trust) ==
  LET r == [Rows EXCEPT !.hosts = list, !.trusted = trust]
      kept == [h \in DOMAIN r.vault \cap list |-> r.vault[h]]
  IN
  /\ Begin(t, <<WriteRows(r)>> \o
              (IF kept # r.vault THEN <<WriteRows([r EXCEPT !.vault = kept])>> ELSE <<>>))
  /\ owed' = {o \in owed : o[1] # Directory \/ o[2] \in list}
  /\ UNCHANGED keys

SaveSshHostFingerprint(t, h) ==
  /\ h \in Rows.hosts
  /\ Begin(t, <<WriteRows([Rows EXCEPT !.trusted = @ \cup {h}])>>)
  /\ UNCHANGED <<keys, owed>>

\* Mutant: the key is written when the credential is in the database.
VaultFirst(makeKey, vault) == vault \o makeKey
KeyFirst(makeKey, vault) == makeKey \o vault

\* A key file of the wrong length is an error; a missing one is made.  The
\* host need not be one of the list.
SaveSshCredential(t, h) ==
  LET file == keyFile[Directory]
      key == IF file = 0 THEN keys + 1 ELSE file
      row == [Rows EXCEPT !.vault = [k \in DOMAIN @ \cup {h} |-> IF k = h THEN key ELSE @[k]]]
      save == <<[WriteRows(row) EXCEPT !.saves = {<<Directory, h>>}]>>
  IN
  IF file = TornKey THEN Begin(t, <<>>) /\ UNCHANGED <<keys, owed>>
  ELSE /\ file # 0 \/ keys < MaxKeys
       /\ Begin(t, IF file = 0 THEN KeyFirst(<<WriteKey(TornKey), WriteKey(key)>>, save) ELSE save)
       /\ keys' = IF file = 0 THEN keys + 1 ELSE keys
       /\ UNCHANGED owed

DeleteSshCredential(t, h) ==
  /\ h \in DOMAIN Rows.vault
  /\ Begin(t, <<WriteRows([Rows EXCEPT !.vault = Without(@, h)])>>)
  /\ owed' = owed \ {<<Directory, h>>}
  /\ UNCHANGED keys

\* SavePartial, and SaveTransferConfig, which leaves the directory alone.
SavePartial(t, d) ==
  /\ Begin(t, RewriteConfig(d))
  /\ UNCHANGED <<keys, owed>>

\* The process dies and is started again.
CrashStore ==
  /\ storeMutex # NoThread
  /\ todo' = [t \in Threads |-> <<>>]
  /\ storeMutex' = NoThread
  /\ UNCHANGED <<config, rows, keyFile, keys, owed>>

-----------------------------------------------------------------------------
StoreNext ==
  \/ \E t \in Threads :
       \/ \E list \in SUBSET Hosts : \E trust \in SUBSET list : SaveSshHosts(t, list, trust)
       \/ \E h \in Hosts : \/ SaveSshHostFingerprint(t, h)
                           \/ SaveSshCredential(t, h) \/ DeleteSshCredential(t, h)
       \/ \E d \in Directories : SavePartial(t, d)
       \/ MakeWrite(t)
  \/ CrashStore

StoreSpec == StoreInit /\ [][StoreNext]_storeVars

-----------------------------------------------------------------------------
StoreTypeOK ==
  /\ config \in Directories \cup {Torn}
  /\ \A d \in Directories :
       /\ rows[d].hosts \subseteq Hosts /\ rows[d].trusted \subseteq rows[d].hosts
       /\ DOMAIN rows[d].vault \subseteq Hosts
       /\ keyFile[d] \in {TornKey} \cup 0 .. MaxKeys
  /\ storeMutex \in Threads \cup {NoThread}
  /\ owed \subseteq Directories \X Hosts

\* Wherever the process crashes, and whichever directory is in use: a
\* credential in a database can be decrypted with the key beside it.
VaultIsReadable ==
  \A d \in Directories : \A h \in DOMAIN rows[d].vault : rows[d].vault[h] = keyFile[d]

\* A credential whose saving was answered for is there until somebody removes
\* it or its host: no other operation loses it, and no crash.
AcknowledgedSurvives == \A o \in owed : o[2] \in DOMAIN rows[o[1]].vault

\* What a saved credential can count on, together.
CredentialsAreSafe == VaultIsReadable /\ AcknowledgedSurvives
=============================================================================
