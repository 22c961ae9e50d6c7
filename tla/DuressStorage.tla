--------------------------- MODULE DuressStorage ---------------------------
(***************************************************************************)
(* The files of a client and the two codes that open and destroy them:     *)
(* Storage of crates/client/src/storage.rs, DuressEngine of duress.rs, the *)
(* setup and the login of run_client, /send, /delete and /wipe as far as   *)
(* they touch files, and `hexapriv wipe` from another terminal.            *)
(*                                                                         *)
(* Writing a file is two steps, creation (which truncates) and writing,    *)
(* and an erasure overwrites and then unlinks files one by one.  A process *)
(* may end between any two steps, killed or with an error; what it wrote   *)
(* stays.  Left out: written data that is lost with the power, and I/O     *)
(* errors inside an erasure, which the code ignores.                       *)
(*                                                                         *)
(* Encryption is ideal: the identity opens with the code it was encrypted  *)
(* with.  Directories are left out: the two that a creation needs are made *)
(* right before it.                                                        *)
(***************************************************************************)
EXTENDS Naturals, FiniteSets

CONSTANTS
    Code,       \* passcodes
    Message,    \* names of message files
    None        \* nothing

ASSUME NoneAssumption == None \notin Code

Config   == "config"
Identity == "identity"

ASSUME NameAssumption == Message \cap {Config, Identity} = {}

File == {Config, Identity} \cup Message

VARIABLES
    disk,        \* whether each file exists and what is in it
    hashes,      \* the codes whose hashes are in the config, when it has data
    sealed,      \* the code the identity is encrypted with, when it has data
    pc,          \* where the client is
    real,        \* code A, as typed in the setup under way
    duress,      \* code B, as typed in the setup under way
    target,      \* the message file being written
    eraser,      \* what erases: code B or /wipe, /delete, or `hexapriv wipe`
    scope,       \* the files it erases
    phase,       \* where it is
    todo,        \* the files it has found and not yet dealt with
    current,     \* the file it is overwriting
    doomed,      \* history: files that held data when the erasure began
    interrupted  \* history: an identity was left half written or a wipe unfinished

fileVars == <<disk, hashes, sealed>>
clientVars == <<pc, real, duress, target>>
eraseVars == <<eraser, scope, phase, todo, current>>
vars == <<fileVars, clientVars, eraseVars, doomed, interrupted>>

Blank == {"absent", "empty", "zeroes"}

\* The client is inside setup_passcodes or save_identity, or asks for the codes.
SettingUp == pc \in {"codes", "config", "generate", "identity"}

Erasing == phase \in {"overwrite", "zero", "unlink"}

TypeOK ==
    /\ disk \in [File -> Blank \cup {"data"}]
    /\ disk[Config] = "data" => hashes \in {h \in [real : Code, duress : Code] : h.real # h.duress}
    /\ disk[Identity] = "data" => sealed \in Code
    /\ pc \in {"down", "codes", "config", "generate", "identity",
               "login", "dashboard", "saving", "erasing"}
    /\ real \in Code \cup {None} /\ duress \in Code \cup {None}
    /\ target \in Message \cup {None}
    /\ eraser \in {"wipe", "delete", "cli", "nobody"}
    /\ scope \in {File, Message}
    /\ phase \in {"idle", "overwrite", "zero", "unlink", "done", "aborted"}
    /\ todo \subseteq File /\ doomed \subseteq File
    /\ current \in File \cup {None}
    /\ interrupted \in BOOLEAN

Init ==
    /\ disk = [f \in File |-> "absent"] /\ hashes = None /\ sealed = None
    /\ pc = "down" /\ real = None /\ duress = None /\ target = None
    /\ eraser = "nobody" /\ scope = File /\ phase = "idle" /\ todo = {} /\ current = None
    /\ doomed = {} /\ interrupted = FALSE

Exists(f) == disk[f] # "absent"

-----------------------------------------------------------------------------
\* Files.

\* File::create; the file is no longer one that a past erasure had found.
Create(f) ==
    /\ disk' = [disk EXCEPT ![f] = "empty"]
    /\ doomed' = doomed \ {f}
    /\ UNCHANGED <<hashes, sealed>>

\* write_all to an open file; when it was unlinked the data is gone with it.
Write(f) ==
    disk' = IF Exists(f) THEN [disk EXCEPT ![f] = "data"] ELSE disk

\* variant: either file makes a client that was set up
IdentityExistsEither == Exists(Identity) \/ Exists(Config)

IdentityExists == Exists(Identity) /\ Exists(Config)

-----------------------------------------------------------------------------
\* The client: start, setup, login.

\* Nobody starts the client while a wipe is under way.
Start ==
    /\ pc = "down" /\ ~Erasing
    /\ pc' = IF IdentityExists THEN "login" ELSE "codes"
    /\ UNCHANGED <<fileVars, real, duress, target, eraseVars, doomed, interrupted>>

\* variant: setup_passcodes accepts equal codes
CodesUnchecked(a, b) == TRUE

CodesDiffer(a, b) == a # b

\* Code A and code B are confirmed and different: the config is created.
CreateConfig(a, b) ==
    /\ pc = "codes" /\ CodesDiffer(a, b)
    /\ Create(Config)
    /\ real' = a /\ duress' = b
    /\ pc' = "config"
    /\ UNCHANGED <<target, eraseVars, interrupted>>

WriteConfig ==
    /\ pc = "config"
    /\ Write(Config) /\ hashes' = [real |-> real, duress |-> duress]
    /\ pc' = "generate"
    /\ UNCHANGED <<sealed, real, duress, target, eraseVars, doomed, interrupted>>

CreateIdentity ==
    /\ pc = "generate"
    /\ Create(Identity)
    /\ pc' = "identity"
    /\ UNCHANGED <<real, duress, target, eraseVars, interrupted>>

\* Identity::encrypt, in save_identity.
Encrypt(a) == sealed' = a

\* Identity::decrypt of what the file holds.
Decrypts(a) == disk[Identity] = "data" /\ sealed = a

\* The setup is complete; the program ends and asks to be started again.
WriteIdentity ==
    /\ pc = "identity"
    /\ Write(Identity) /\ Encrypt(real)
    /\ pc' = "down" /\ real' = None /\ duress' = None
    /\ interrupted' = FALSE
    /\ UNCHANGED <<hashes, target, eraseVars, doomed>>

\* A code is accepted as A, and the identity opens with it.
Opens(a) ==
    /\ disk[Config] = "data" /\ hashes.real = a
    /\ Decrypts(a)

IsDuress(c) == disk[Config] = "data" /\ hashes.real # c /\ hashes.duress = c

\* authenticate and load_identity, for code A.
Login(c) ==
    /\ pc = "login" /\ Opens(c)
    /\ pc' = "dashboard"
    /\ UNCHANGED <<fileVars, real, duress, target, eraseVars, doomed, interrupted>>

\* Everything else but the duress code: a code that is not known, or a file
\* that does not parse.
Refuse(c) ==
    /\ pc = "login" /\ ~Opens(c) /\ ~IsDuress(c)
    /\ pc' = "down"
    /\ UNCHANGED <<fileVars, real, duress, target, eraseVars, doomed, interrupted>>

-----------------------------------------------------------------------------
\* Erasure.

\* variant: it does not descend
FoundTopLevel(s) == {f \in s \ Message : Exists(f)}

\* variant: it does not stay below the directory it is given
FoundEverywhere(s) == {f \in File : Exists(f)}

\* What read_dir finds, all the way down.
Found(s) == {f \in s : Exists(f)}

\* variant: no overwriting
FirstPhaseUnlink == "unlink"

FirstPhase == "overwrite"

\* silent_wipe, or delete_conversation_keys.  A second erasure during the
\* first is left out.
BeginErase(who, s) ==
    /\ ~Erasing
    /\ eraser' = who /\ scope' = s
    /\ phase' = FirstPhase /\ todo' = Found(s) /\ current' = None
    /\ doomed' = {f \in s : disk[f] = "data"}
    /\ UNCHANGED <<fileVars, interrupted>>

\* Code B at login.
EnterDuress(c) ==
    /\ pc = "login" /\ IsDuress(c)
    /\ BeginErase("wipe", File)
    /\ pc' = "erasing"
    /\ UNCHANGED <<real, duress, target>>

\* /wipe, and /delete with the id of a conversation.  The id is joined to the
\* path unchecked: `..` names the directory that holds everything.  (The name of
\* a file, config or identity, changes nothing: it is no directory.)
EraseCommand(who, s) ==
    /\ pc = "dashboard" /\ (who = "wipe" => s = File)
    /\ BeginErase(who, s)
    /\ pc' = "erasing"
    /\ UNCHANGED <<real, duress, target>>

\* `hexapriv wipe`, in another terminal perhaps, but not during a setup.
WipeFromCli ==
    /\ ~SettingUp
    /\ BeginErase("cli", File)
    /\ UNCHANGED clientVars

\* fs::write truncates the file first ...
Truncate(f) ==
    /\ phase = "overwrite" /\ f \in todo
    /\ todo' = todo \ {f}
    /\ IF disk[f] \in {"absent", "empty"}
       THEN UNCHANGED <<disk, phase, current>>
       ELSE /\ disk' = [disk EXCEPT ![f] = "empty"]
            /\ phase' = "zero" /\ current' = f
    /\ UNCHANGED <<hashes, sealed, clientVars, eraser, scope, doomed, interrupted>>

\* ... and then writes as many zeroes as it had bytes.
Zero ==
    /\ phase = "zero"
    /\ disk' = [disk EXCEPT ![current] = "zeroes"]
    /\ phase' = "overwrite" /\ current' = None
    /\ UNCHANGED <<hashes, sealed, clientVars, eraser, scope, todo, doomed, interrupted>>

\* remove_dir_all begins when every file found was overwritten.
BeginUnlink ==
    /\ phase = "overwrite" /\ todo = {}
    /\ phase' = "unlink" /\ todo' = Found(scope)
    /\ UNCHANGED <<fileVars, clientVars, eraser, scope, current, doomed, interrupted>>

Unlink(f) ==
    /\ phase = "unlink" /\ f \in scope /\ Exists(f)
    /\ disk' = [disk EXCEPT ![f] = "absent"]
    /\ todo' = todo \ {f}
    /\ UNCHANGED <<hashes, sealed, clientVars, eraser, scope, phase, current, doomed, interrupted>>

\* variant: the directory listing ends early
AllUnlinkedEarly == TRUE

AllUnlinked == todo = {}

\* A wipe ends the process that asked for it; /delete returns to the dashboard,
\* whatever it has erased.
ReturnFromErase ==
    /\ eraser' = "nobody" /\ todo' = {}
    /\ \/ eraser = "cli" /\ pc' = pc
       \/ eraser = "wipe" /\ pc' = "down"
       \/ eraser = "delete" /\ pc' = "dashboard"
    /\ UNCHANGED <<fileVars, real, duress, target, scope, current, doomed>>

EndErase ==
    /\ phase = "unlink" /\ AllUnlinked
    /\ phase' = "done"
    /\ interrupted' = (interrupted /\ scope # File)
    /\ ReturnFromErase

\* A file that came after the listing of its directory keeps the directory from
\* being removed; remove_dir_all gives up and its error is ignored.
AbortErase ==
    /\ phase = "unlink" /\ todo # {}
    /\ \E m \in (Message \cap scope) \ todo : Exists(m)
    /\ phase' = "aborted"
    /\ interrupted' = (interrupted \/ scope = File)
    /\ ReturnFromErase

-----------------------------------------------------------------------------
\* The dashboard: /send saves what was sent, under a new name.

CreateMessage(m) ==
    /\ pc = "dashboard" /\ ~Exists(m)
    /\ Create(m)
    /\ target' = m /\ pc' = "saving"
    /\ UNCHANGED <<real, duress, eraseVars, interrupted>>

WriteMessage ==
    /\ pc = "saving"
    /\ Write(target)
    /\ target' = None /\ pc' = "dashboard"
    /\ UNCHANGED <<hashes, sealed, real, duress, eraseVars, doomed, interrupted>>

-----------------------------------------------------------------------------
\* The end of a process: /exit, a kill, or an error that is returned.

EndClient ==
    /\ pc # "down"
    /\ pc' = "down" /\ real' = None /\ duress' = None /\ target' = None
    /\ IF pc = "erasing"
       THEN phase' = "idle" /\ eraser' = "nobody" /\ current' = None /\ todo' = {}
       ELSE UNCHANGED <<phase, eraser, current, todo>>
    /\ interrupted' = (interrupted \/ pc = "identity" \/ (pc = "erasing" /\ scope = File))
    /\ UNCHANGED <<fileVars, scope, doomed>>

EndCli ==
    /\ Erasing /\ eraser = "cli"
    /\ phase' = "idle" /\ eraser' = "nobody" /\ current' = None /\ todo' = {}
    /\ interrupted' = TRUE
    /\ UNCHANGED <<fileVars, clientVars, scope, doomed>>

Setup ==
    \/ Start
    \/ \E a, b \in Code : CreateConfig(a, b)
    \/ WriteConfig \/ CreateIdentity \/ WriteIdentity

Use ==
    \/ \E c \in Code : Login(c) \/ Refuse(c) \/ EnterDuress(c)
    \/ \E m \in Message : CreateMessage(m)
    \/ WriteMessage
    \/ \E who \in {"wipe", "delete"}, s \in {File, Message} : EraseCommand(who, s)

Erase ==
    \/ WipeFromCli
    \/ \E f \in File : Truncate(f) \/ Unlink(f)
    \/ Zero \/ BeginUnlink \/ EndErase \/ AbortErase

Next == Setup \/ Use \/ Erase \/ EndClient \/ EndCli

Spec == Init /\ [][Next]_vars

-----------------------------------------------------------------------------
\* The files as a vault.

Readable == disk[Config] = "data" /\ disk[Identity] = "data"

\* /delete blocks the dashboard and returns to it.
Inside == pc \in {"dashboard", "saving"} \/ (pc = "erasing" /\ eraser = "delete")

Files == INSTANCE Vault WITH
    key    <- IF Readable THEN hashes.real ELSE None,
    alarm  <- IF Readable THEN hashes.duress ELSE None,
    inside <- Inside,
    wiping <- Erasing /\ scope = File

\* A client's files are a vault: what two codes open and wipe comes about with
\* the last write of a setup, only where nothing could be read before; no
\* message, /delete of a conversation, login or end of a process changes it, and
\* the first overwrite of an erasure of everything, and nothing else, ends it:
\* of a wipe, or of a /delete whose id names the base directory.
VaultSpec == Files!VaultSpec

-----------------------------------------------------------------------------
\* Whenever config and identity can both be read, the identity opens with code
\* A of that config, whatever setups and wipes were cut short before: setup
\* writes the config first, and a wipe blanks everything before it unlinks
\* anything.
CodesMatchIdentity ==
    disk[Config] = "data" /\ disk[Identity] = "data" => sealed = hashes.real

\* A client that is down can be set up or logged in to, unless a process ended
\* in the middle of the write of an identity or of a wipe, or a wipe gave up.
\* A setup cut short anywhere else is no obstacle.
SetupOrLogin ==
    pc = "down" /\ ~Erasing /\ ~interrupted
        => ~IdentityExists \/ \E c \in Code : Opens(c)

\* From its first unlink on, all that an erasure was to destroy is overwritten,
\* even if it is cut short or the dashboard writes new files meanwhile.
BlankBeforeUnlink ==
    phase \in {"unlink", "done", "aborted"} => \A f \in doomed : disk[f] \in Blank

\* An erasure that ran to its end left no file that held data before it began.
ErasedWhenDone ==
    phase = "done" => \A f \in doomed : ~Exists(f)

=============================================================================
