------------------------ MODULE DuressStorageProofs ------------------------
(***************************************************************************)
(* What holds of DuressStorage for every set of codes and messages.        *)
(*                                                                         *)
(* The safety properties are proved from one inductive invariant, Inv: its *)
(* parts say who may be at work together (Exclusion), what the steps of    *)
(* setup and of /send leave half done (HalfWritten), how far an erasure is *)
(* (Progress), and which pairs of config and identity can be on the disk   *)
(* (Pairs).                                                                *)
(***************************************************************************)
EXTENDS DuressStorage, TLAPS

\* No setup runs beside an erasure, and a client that erases does nothing else.
Exclusion ==
    /\ SettingUp => ~Erasing
    /\ pc = "erasing" <=> Erasing /\ eraser \in {"wipe", "delete"}
    /\ Erasing => eraser \in {"wipe", "delete", "cli"}
    /\ eraser \in {"wipe", "cli"} => scope = File

\* A config or an identity that was created and not yet written is empty, and no
\* erasure counts a half-written file among what it was to destroy.
HalfWritten ==
    /\ pc = "config" => disk[Config] = "empty" /\ Config \notin doomed
    /\ pc \in {"config", "generate", "identity"} =>
          real \in Code /\ duress \in Code /\ real # duress
    /\ pc \in {"generate", "identity"} =>
          disk[Config] = "data" /\ hashes = [real |-> real, duress |-> duress]
    /\ pc = "identity" => disk[Identity] = "empty" /\ Identity \notin doomed
    /\ pc = "saving" => /\ target \in Message /\ target \notin doomed
                        /\ disk[target] # "data"

\* What an erasure was to destroy is found, then blank, then gone.
Progress ==
    /\ Erasing => todo \subseteq scope /\ doomed \subseteq scope
    /\ Erasing /\ scope = File =>
          \A f \in {Config, Identity} : disk[f] = "data" => f \in doomed
    /\ phase \in {"overwrite", "zero"} => \A f \in doomed : disk[f] = "data" => f \in todo
    /\ phase = "zero" => current \in scope \ todo
    /\ BlankBeforeUnlink
    /\ phase = "unlink" => \A f \in doomed : Exists(f) => f \in todo
    /\ phase = "unlink" /\ scope = File =>
          \A f \in {Config, Identity} : Exists(f) => f \in todo
    /\ ErasedWhenDone

\* An identity that has data has a config, which is its own when it has data,
\* too; and nothing is half there unless something was interrupted.
Pairs ==
    /\ disk[Identity] = "data" => Exists(Config)
    /\ pc \in {"codes", "config", "generate"} => disk[Identity] # "data"
    /\ CodesMatchIdentity
    /\ ~interrupted /\ pc \in {"codes", "config", "generate"} => ~Exists(Identity)
    /\ ~interrupted /\ ~(Erasing /\ scope = File) /\ pc # "identity" =>
          ~Exists(Identity) \/ (disk[Config] = "data" /\ disk[Identity] = "data")

Inv == TypeOK /\ Exclusion /\ HalfWritten /\ Progress /\ Pairs

-----------------------------------------------------------------------------
\* Every step keeps the types.
LEMMA TypeStep == Inv /\ [Next]_vars => TypeOK'
<1>. SUFFICES ASSUME Inv, [Next]_vars PROVE TypeOK'
  OBVIOUS
<1>. USE NameAssumption DEF Inv, TypeOK, File, Config, Identity, Blank, fileVars, clientVars, eraseVars, Exclusion, HalfWritten, Progress, SettingUp, Erasing
<1>1. CASE Start
  BY <1>1 DEF Start, IdentityExists
<1>2. ASSUME NEW a \in Code, NEW b \in Code, CreateConfig(a, b) PROVE TypeOK'
  BY <1>2 DEF CreateConfig, Create, CodesDiffer
<1>3. CASE WriteConfig
  BY <1>3 DEF WriteConfig, Write, Exists
<1>4. CASE CreateIdentity
  BY <1>4 DEF CreateIdentity, Create
<1>5. CASE WriteIdentity
  BY <1>5 DEF WriteIdentity, Write, Exists, Encrypt
<1>6. ASSUME NEW c \in Code, Login(c) PROVE TypeOK'
  BY <1>6 DEF Login, Opens, Decrypts
<1>7. ASSUME NEW c \in Code, Refuse(c) PROVE TypeOK'
  BY <1>7 DEF Refuse, Opens, Decrypts, IsDuress
<1>8. ASSUME NEW c \in Code, EnterDuress(c) PROVE TypeOK'
  BY <1>8 DEF EnterDuress, IsDuress, BeginErase, FirstPhase, Found
<1>9. ASSUME NEW m \in Message, CreateMessage(m) PROVE TypeOK'
  BY <1>9 DEF CreateMessage, Create, Exists
<1>10. CASE WriteMessage
  BY <1>10 DEF WriteMessage, Write, Exists
<1>11. ASSUME NEW who \in {"wipe", "delete"}, NEW s \in {File, Message}, EraseCommand(who, s) PROVE TypeOK'
  BY <1>11 DEF EraseCommand, BeginErase, FirstPhase, Found
<1>12. CASE WipeFromCli
  BY <1>12 DEF WipeFromCli, BeginErase, FirstPhase, Found
<1>13. ASSUME NEW f \in File, Truncate(f) PROVE TypeOK'
  BY <1>13 DEF Truncate
<1>14. ASSUME NEW f \in File, Unlink(f) PROVE TypeOK'
  BY <1>14 DEF Unlink, Exists
<1>15. CASE Zero
  BY <1>15 DEF Zero
<1>16. CASE BeginUnlink
  BY <1>16 DEF BeginUnlink, Found
<1>17. CASE EndErase
  BY <1>17 DEF EndErase, ReturnFromErase, AllUnlinked
<1>18. CASE AbortErase
  BY <1>18 DEF AbortErase, ReturnFromErase
<1>19. CASE EndClient
  BY <1>19 DEF EndClient
<1>20. CASE EndCli
  BY <1>20 DEF EndCli
<1>21. CASE UNCHANGED vars
  BY <1>21 DEF vars
<1>. QED
  BY <1>1, <1>2, <1>3, <1>4, <1>5, <1>6, <1>7, <1>8, <1>9, <1>10, <1>11, <1>12, <1>13, <1>14, <1>15, <1>16, <1>17, <1>18, <1>19, <1>20, <1>21 DEF Next, Setup, Use, Erase

\* Every step keeps setups and erasures apart.
LEMMA ExclusionStep == Inv /\ [Next]_vars => Exclusion'
<1>. SUFFICES ASSUME Inv, [Next]_vars PROVE Exclusion'
  OBVIOUS
<1>. USE NameAssumption DEF Inv, TypeOK, File, Config, Identity, Blank, fileVars, clientVars, eraseVars, Exclusion, SettingUp, Erasing
<1>1. CASE Start
  BY <1>1 DEF Start, IdentityExists
<1>2. ASSUME NEW a \in Code, NEW b \in Code, CreateConfig(a, b) PROVE Exclusion'
  BY <1>2 DEF CreateConfig, Create, CodesDiffer
<1>3. CASE WriteConfig
  BY <1>3 DEF WriteConfig, Write, Exists
<1>4. CASE CreateIdentity
  BY <1>4 DEF CreateIdentity, Create
<1>5. CASE WriteIdentity
  BY <1>5 DEF WriteIdentity, Write, Exists, Encrypt
<1>6. ASSUME NEW c \in Code, Login(c) PROVE Exclusion'
  BY <1>6 DEF Login, Opens, Decrypts
<1>7. ASSUME NEW c \in Code, Refuse(c) PROVE Exclusion'
  BY <1>7 DEF Refuse, Opens, Decrypts, IsDuress
<1>8. ASSUME NEW c \in Code, EnterDuress(c) PROVE Exclusion'
  BY <1>8 DEF EnterDuress, IsDuress, BeginErase, FirstPhase, Found
<1>9. ASSUME NEW m \in Message, CreateMessage(m) PROVE Exclusion'
  BY <1>9 DEF CreateMessage, Create, Exists
<1>10. CASE WriteMessage
  BY <1>10 DEF WriteMessage, Write, Exists
<1>11. ASSUME NEW who \in {"wipe", "delete"}, NEW s \in {File, Message}, EraseCommand(who, s) PROVE Exclusion'
  BY <1>11 DEF EraseCommand, BeginErase, FirstPhase, Found
<1>12. CASE WipeFromCli
  BY <1>12 DEF WipeFromCli, BeginErase, FirstPhase, Found
<1>13. ASSUME NEW f \in File, Truncate(f) PROVE Exclusion'
  BY <1>13 DEF Truncate
<1>14. ASSUME NEW f \in File, Unlink(f) PROVE Exclusion'
  BY <1>14 DEF Unlink, Exists
<1>15. CASE Zero
  BY <1>15 DEF Zero
<1>16. CASE BeginUnlink
  BY <1>16 DEF BeginUnlink, Found
<1>17. CASE EndErase
  BY <1>17 DEF EndErase, ReturnFromErase, AllUnlinked
<1>18. CASE AbortErase
  BY <1>18 DEF AbortErase, ReturnFromErase
<1>19. CASE EndClient
  BY <1>19 DEF EndClient
<1>20. CASE EndCli
  BY <1>20 DEF EndCli
<1>21. CASE UNCHANGED vars
  BY <1>21 DEF vars
<1>. QED
  BY <1>1, <1>2, <1>3, <1>4, <1>5, <1>6, <1>7, <1>8, <1>9, <1>10, <1>11, <1>12, <1>13, <1>14, <1>15, <1>16, <1>17, <1>18, <1>19, <1>20, <1>21 DEF Next, Setup, Use, Erase

\* Every step keeps track of what is half written.
LEMMA HalfWrittenStep == Inv /\ [Next]_vars => HalfWritten'
<1>. SUFFICES ASSUME Inv, [Next]_vars PROVE HalfWritten'
  OBVIOUS
<1>. USE NameAssumption DEF Inv, TypeOK, File, Config, Identity, Blank, fileVars, clientVars, eraseVars, Exclusion, HalfWritten, SettingUp, Erasing
<1>1. CASE Start
  BY <1>1 DEF Start, IdentityExists
<1>2. ASSUME NEW a \in Code, NEW b \in Code, CreateConfig(a, b) PROVE HalfWritten'
  BY <1>2 DEF CreateConfig, Create, CodesDiffer
<1>3. CASE WriteConfig
  BY <1>3 DEF WriteConfig, Write, Exists
<1>4. CASE CreateIdentity
  BY <1>4 DEF CreateIdentity, Create
<1>5. CASE WriteIdentity
  BY <1>5 DEF WriteIdentity, Write, Exists, Encrypt
<1>6. ASSUME NEW c \in Code, Login(c) PROVE HalfWritten'
  BY <1>6 DEF Login, Opens, Decrypts
<1>7. ASSUME NEW c \in Code, Refuse(c) PROVE HalfWritten'
  BY <1>7 DEF Refuse, Opens, Decrypts, IsDuress
<1>8. ASSUME NEW c \in Code, EnterDuress(c) PROVE HalfWritten'
  BY <1>8 DEF EnterDuress, IsDuress, BeginErase, FirstPhase, Found
<1>9. ASSUME NEW m \in Message, CreateMessage(m) PROVE HalfWritten'
  BY <1>9 DEF CreateMessage, Create, Exists
<1>10. CASE WriteMessage
  BY <1>10 DEF WriteMessage, Write, Exists
<1>11. ASSUME NEW who \in {"wipe", "delete"}, NEW s \in {File, Message}, EraseCommand(who, s) PROVE HalfWritten'
  BY <1>11 DEF EraseCommand, BeginErase, FirstPhase, Found
<1>12. CASE WipeFromCli
  BY <1>12 DEF WipeFromCli, BeginErase, FirstPhase, Found
<1>13. ASSUME NEW f \in File, Truncate(f) PROVE HalfWritten'
  <2>1. ~SettingUp /\ pc' = pc /\ target' = target /\ doomed' = doomed
    BY <1>13 DEF Truncate
  <2>2. pc = "saving" => disk'[target] # "data"
    BY <1>13 DEF Truncate
  <2>. QED
    BY <2>1, <2>2
<1>14. ASSUME NEW f \in File, Unlink(f) PROVE HalfWritten'
  BY <1>14 DEF Unlink, Exists
<1>15. CASE Zero
  BY <1>15 DEF Zero
<1>16. CASE BeginUnlink
  BY <1>16 DEF BeginUnlink, Found
<1>17. CASE EndErase
  BY <1>17 DEF EndErase, ReturnFromErase, AllUnlinked
<1>18. CASE AbortErase
  BY <1>18 DEF AbortErase, ReturnFromErase
<1>19. CASE EndClient
  BY <1>19 DEF EndClient
<1>20. CASE EndCli
  BY <1>20 DEF EndCli
<1>21. CASE UNCHANGED vars
  BY <1>21 DEF vars
<1>. QED
  BY <1>1, <1>2, <1>3, <1>4, <1>5, <1>6, <1>7, <1>8, <1>9, <1>10, <1>11, <1>12, <1>13, <1>14, <1>15, <1>16, <1>17, <1>18, <1>19, <1>20, <1>21 DEF Next, Setup, Use, Erase

\* Every step keeps track of how far an erasure is.
LEMMA ProgressStep == Inv /\ [Next]_vars => Progress'
<1>. SUFFICES ASSUME Inv, [Next]_vars PROVE Progress'
  OBVIOUS
<1>. USE NameAssumption DEF Inv, TypeOK, File, Config, Identity, Blank, fileVars, clientVars, eraseVars, Exclusion, HalfWritten, Progress, SettingUp, Erasing, BlankBeforeUnlink, ErasedWhenDone, Exists
<1>1. CASE Start
  BY <1>1 DEF Start, IdentityExists
<1>2. ASSUME NEW a \in Code, NEW b \in Code, CreateConfig(a, b) PROVE Progress'
  BY <1>2 DEF CreateConfig, Create, CodesDiffer
<1>3. CASE WriteConfig
  BY <1>3 DEF WriteConfig, Write, Exists
<1>4. CASE CreateIdentity
  BY <1>4 DEF CreateIdentity, Create
<1>5. CASE WriteIdentity
  BY <1>5 DEF WriteIdentity, Write, Exists, Encrypt
<1>6. ASSUME NEW c \in Code, Login(c) PROVE Progress'
  BY <1>6 DEF Login, Opens, Decrypts
<1>7. ASSUME NEW c \in Code, Refuse(c) PROVE Progress'
  BY <1>7 DEF Refuse, Opens, Decrypts, IsDuress
<1>8. ASSUME NEW c \in Code, EnterDuress(c) PROVE Progress'
  BY <1>8 DEF EnterDuress, IsDuress, BeginErase, FirstPhase, Found
<1>9. ASSUME NEW m \in Message, CreateMessage(m) PROVE Progress'
  BY <1>9 DEF CreateMessage, Create, Exists
<1>10. CASE WriteMessage
  BY <1>10 DEF WriteMessage, Write, Exists
<1>11. ASSUME NEW who \in {"wipe", "delete"}, NEW s \in {File, Message}, EraseCommand(who, s) PROVE Progress'
  BY <1>11 DEF EraseCommand, BeginErase, FirstPhase, Found
<1>12. CASE WipeFromCli
  BY <1>12 DEF WipeFromCli, BeginErase, FirstPhase, Found
<1>13. ASSUME NEW f \in File, Truncate(f) PROVE Progress'
  BY <1>13 DEF Truncate
<1>14. ASSUME NEW f \in File, Unlink(f) PROVE Progress'
  BY <1>14 DEF Unlink, Exists
<1>15. CASE Zero
  BY <1>15 DEF Zero
<1>16. CASE BeginUnlink
  BY <1>16 DEF BeginUnlink, Found
<1>17. CASE EndErase
  BY <1>17 DEF EndErase, ReturnFromErase, AllUnlinked
<1>18. CASE AbortErase
  BY <1>18 DEF AbortErase, ReturnFromErase
<1>19. CASE EndClient
  BY <1>19 DEF EndClient
<1>20. CASE EndCli
  BY <1>20 DEF EndCli
<1>21. CASE UNCHANGED vars
  BY <1>21 DEF vars
<1>. QED
  BY <1>1, <1>2, <1>3, <1>4, <1>5, <1>6, <1>7, <1>8, <1>9, <1>10, <1>11, <1>12, <1>13, <1>14, <1>15, <1>16, <1>17, <1>18, <1>19, <1>20, <1>21 DEF Next, Setup, Use, Erase

\* Every step keeps config and identity together.
LEMMA PairsStep == Inv /\ [Next]_vars => Pairs'
<1>. SUFFICES ASSUME Inv, [Next]_vars PROVE Pairs'
  OBVIOUS
<1>. USE NameAssumption DEF Inv, TypeOK, File, Config, Identity, Blank, fileVars, clientVars, eraseVars, Exclusion, HalfWritten, Progress, Pairs, SettingUp, Erasing, BlankBeforeUnlink, CodesMatchIdentity, Exists
<1>1. CASE Start
  BY <1>1 DEF Start, IdentityExists
<1>2. ASSUME NEW a \in Code, NEW b \in Code, CreateConfig(a, b) PROVE Pairs'
  BY <1>2 DEF CreateConfig, Create, CodesDiffer
<1>3. CASE WriteConfig
  BY <1>3 DEF WriteConfig, Write, Exists
<1>4. CASE CreateIdentity
  BY <1>4 DEF CreateIdentity, Create
<1>5. CASE WriteIdentity
  BY <1>5 DEF WriteIdentity, Write, Exists, Encrypt
<1>6. ASSUME NEW c \in Code, Login(c) PROVE Pairs'
  BY <1>6 DEF Login, Opens, Decrypts
<1>7. ASSUME NEW c \in Code, Refuse(c) PROVE Pairs'
  BY <1>7 DEF Refuse, Opens, Decrypts, IsDuress
<1>8. ASSUME NEW c \in Code, EnterDuress(c) PROVE Pairs'
  BY <1>8 DEF EnterDuress, IsDuress, BeginErase, FirstPhase, Found
<1>9. ASSUME NEW m \in Message, CreateMessage(m) PROVE Pairs'
  BY <1>9 DEF CreateMessage, Create, Exists
<1>10. CASE WriteMessage
  BY <1>10 DEF WriteMessage, Write, Exists
<1>11. ASSUME NEW who \in {"wipe", "delete"}, NEW s \in {File, Message}, EraseCommand(who, s) PROVE Pairs'
  BY <1>11 DEF EraseCommand, BeginErase, FirstPhase, Found
<1>12. CASE WipeFromCli
  BY <1>12 DEF WipeFromCli, BeginErase, FirstPhase, Found
<1>13. ASSUME NEW f \in File, Truncate(f) PROVE Pairs'
  BY <1>13 DEF Truncate
<1>14. ASSUME NEW f \in File, Unlink(f) PROVE Pairs'
  BY <1>14 DEF Unlink, Exists
<1>15. CASE Zero
  BY <1>15 DEF Zero
<1>16. CASE BeginUnlink
  BY <1>16 DEF BeginUnlink, Found
<1>17. CASE EndErase
  BY <1>17 DEF EndErase, ReturnFromErase, AllUnlinked
<1>18. CASE AbortErase
  BY <1>18 DEF AbortErase, ReturnFromErase
<1>19. CASE EndClient
  BY <1>19 DEF EndClient
<1>20. CASE EndCli
  BY <1>20 DEF EndCli
<1>21. CASE UNCHANGED vars
  BY <1>21 DEF vars
<1>. QED
  BY <1>1, <1>2, <1>3, <1>4, <1>5, <1>6, <1>7, <1>8, <1>9, <1>10, <1>11, <1>12, <1>13, <1>14, <1>15, <1>16, <1>17, <1>18, <1>19, <1>20, <1>21 DEF Next, Setup, Use, Erase

\* Every step of the client and of the CLI is a step of the vault, or none.
LEMMA VaultStep == Inv /\ [Next]_vars => [Files!VaultNext]_(Files!vaultVars)
<1>. SUFFICES ASSUME Inv, [Next]_vars PROVE [Files!VaultNext]_(Files!vaultVars)
  OBVIOUS
<1>. USE NameAssumption, NoneAssumption DEF Inv, TypeOK, File, Config, Identity, Blank, fileVars, clientVars, eraseVars, Exclusion, HalfWritten, Progress, Pairs, SettingUp, Erasing, Readable, Inside, Files!vaultVars, CodesMatchIdentity, BlankBeforeUnlink, Exists
<1>1. CASE Start
  BY <1>1 DEF Start, IdentityExists
<1>2. ASSUME NEW a \in Code, NEW b \in Code, CreateConfig(a, b) PROVE [Files!VaultNext]_(Files!vaultVars)
  BY <1>2 DEF CreateConfig, Create, CodesDiffer
<1>3. CASE WriteConfig
  BY <1>3 DEF WriteConfig, Write, Exists
<1>4. CASE CreateIdentity
  BY <1>4 DEF CreateIdentity, Create
<1>5. CASE WriteIdentity
  <2>1. Files!SetUp(real, duress)
    BY <1>5 DEF WriteIdentity, Write, Exists, Encrypt, Files!SetUp
  <2>. QED
    BY <2>1, <1>5 DEF Files!VaultNext, WriteIdentity
<1>6. ASSUME NEW c \in Code, Login(c) PROVE [Files!VaultNext]_(Files!vaultVars)
  <2>1. Files!Enter
    BY <1>6 DEF Login, Opens, Decrypts, Files!Enter
  <2>. QED
    BY <2>1 DEF Files!VaultNext
<1>7. ASSUME NEW c \in Code, Refuse(c) PROVE [Files!VaultNext]_(Files!vaultVars)
  BY <1>7 DEF Refuse, Opens, Decrypts, IsDuress
<1>8. ASSUME NEW c \in Code, EnterDuress(c) PROVE [Files!VaultNext]_(Files!vaultVars)
  <2>1. Files!BeginWipe
    BY <1>8 DEF EnterDuress, IsDuress, BeginErase, FirstPhase, Found, Files!BeginWipe
  <2>. QED
    BY <2>1 DEF Files!VaultNext
<1>9. ASSUME NEW m \in Message, CreateMessage(m) PROVE [Files!VaultNext]_(Files!vaultVars)
  BY <1>9 DEF CreateMessage, Create, Exists
<1>10. CASE WriteMessage
  BY <1>10 DEF WriteMessage, Write, Exists
<1>11. ASSUME NEW who \in {"wipe", "delete"}, NEW s \in {File, Message}, EraseCommand(who, s) PROVE [Files!VaultNext]_(Files!vaultVars)
  <2>1. CASE s = File
    <3>1. Files!BeginWipe
      BY <1>11, <2>1 DEF EraseCommand, BeginErase, FirstPhase, Found, Files!BeginWipe
    <3>. QED
      BY <3>1 DEF Files!VaultNext
  <2>2. CASE s = Message
    BY <1>11, <2>2 DEF EraseCommand, BeginErase, FirstPhase, Found
  <2>. QED
    BY <2>1, <2>2
<1>12. CASE WipeFromCli
  <2>1. Files!BeginWipe
    BY <1>12 DEF WipeFromCli, BeginErase, FirstPhase, Found, Files!BeginWipe
  <2>. QED
    BY <2>1 DEF Files!VaultNext
<1>13. ASSUME NEW f \in File, Truncate(f) PROVE [Files!VaultNext]_(Files!vaultVars)
  <2>1. CASE disk' = disk
    BY <1>13, <2>1 DEF Truncate
  <2>2. CASE Readable /\ ~Readable'
    <3>1. Files!Destroy
      BY <1>13, <2>2 DEF Truncate, Files!Destroy
    <3>. QED
      BY <3>1 DEF Files!VaultNext
  <2>. QED
    BY <1>13, <2>1, <2>2 DEF Truncate
<1>14. ASSUME NEW f \in File, Unlink(f) PROVE [Files!VaultNext]_(Files!vaultVars)
  BY <1>14 DEF Unlink, Exists
<1>15. CASE Zero
  BY <1>15 DEF Zero
<1>16. CASE BeginUnlink
  BY <1>16 DEF BeginUnlink, Found
<1>17. CASE EndErase
  <2>1. CASE scope = File
    <3>1. Files!EndWipe
      BY <1>17, <2>1 DEF EndErase, ReturnFromErase, AllUnlinked, Files!EndWipe
    <3>. QED
      BY <3>1 DEF Files!VaultNext
  <2>2. CASE scope = Message
    BY <1>17, <2>2 DEF EndErase, ReturnFromErase, AllUnlinked
  <2>. QED
    BY <2>1, <2>2
<1>18. CASE AbortErase
  <2>1. CASE scope = File
    <3>1. Files!EndWipe
      BY <1>18, <2>1 DEF AbortErase, ReturnFromErase, Files!EndWipe
    <3>. QED
      BY <3>1 DEF Files!VaultNext
  <2>2. CASE scope = Message
    BY <1>18, <2>2 DEF AbortErase, ReturnFromErase
  <2>. QED
    BY <2>1, <2>2
<1>19. CASE EndClient
  <2>1. CASE pc = "erasing" /\ scope = File
    <3>1. Files!EndWipe
      BY <1>19, <2>1 DEF EndClient, Files!EndWipe
    <3>. QED
      BY <3>1 DEF Files!VaultNext
  <2>2. CASE Inside /\ ~(pc = "erasing" /\ scope = File)
    <3>1. Files!Leave
      BY <1>19, <2>2 DEF EndClient, Files!Leave
    <3>. QED
      BY <3>1 DEF Files!VaultNext
  <2>. QED
    BY <1>19, <2>1, <2>2 DEF EndClient
<1>20. CASE EndCli
  <2>1. Files!EndWipe
    BY <1>20 DEF EndCli, Files!EndWipe
  <2>. QED
    BY <2>1 DEF Files!VaultNext
<1>21. CASE UNCHANGED vars
  BY <1>21 DEF vars
<1>. QED
  BY <1>1, <1>2, <1>3, <1>4, <1>5, <1>6, <1>7, <1>8, <1>9, <1>10, <1>11, <1>12, <1>13, <1>14, <1>15, <1>16, <1>17, <1>18, <1>19, <1>20, <1>21 DEF Next, Setup, Use, Erase

-----------------------------------------------------------------------------
\* The inductive invariant holds in the initial state.
LEMMA InitInv == Init => Inv
BY NameAssumption DEF Init, Inv, TypeOK, Exclusion, HalfWritten, Progress, Pairs,
   File, Config, Identity, Blank, SettingUp, Erasing, Exists,
   BlankBeforeUnlink, ErasedWhenDone, CodesMatchIdentity

\* Inv holds in every reachable state.
THEOREM Invariance == Spec => []Inv
<1>1. Inv /\ [Next]_vars => Inv'
  BY TypeStep, ExclusionStep, HalfWrittenStep, ProgressStep, PairsStep DEF Inv
<1>. QED
  BY InitInv, <1>1, PTL DEF Spec

\* The files and the processes keep their types.
THEOREM StorageTypes == Spec => []TypeOK
<1>1. Inv => TypeOK
  BY DEF Inv
<1>. QED
  BY Invariance, <1>1, PTL

\* A config and an identity that can both be read belong to one setup, whatever
\* setups and wipes were cut short before.
THEOREM CodesBelongTogether == Spec => []CodesMatchIdentity
<1>1. Inv => CodesMatchIdentity
  BY DEF Inv, Pairs
<1>. QED
  BY Invariance, <1>1, PTL

\* Without an identity half written or a wipe unfinished, a client that is down
\* can be set up or logged in to.
THEOREM AlwaysUsable == Spec => []SetupOrLogin
<1>1. Inv => SetupOrLogin
  <2>. SUFFICES ASSUME Inv, pc = "down", ~Erasing, ~interrupted, IdentityExists
                PROVE  Opens(hashes.real) /\ hashes.real \in Code
    BY DEF SetupOrLogin
  <2>. QED
    BY DEF Inv, Pairs, CodesMatchIdentity, IdentityExists, Opens, Decrypts, TypeOK
<1>. QED
  BY Invariance, <1>1, PTL

\* An erasure unlinks nothing before all it was to destroy is blank.
THEOREM BlankFirst == Spec => []BlankBeforeUnlink
<1>1. Inv => BlankBeforeUnlink
  BY DEF Inv, Progress
<1>. QED
  BY Invariance, <1>1, PTL

\* A finished erasure leaves none of the files it was to destroy.
THEOREM ErasureComplete == Spec => []ErasedWhenDone
<1>1. Inv => ErasedWhenDone
  BY DEF Inv, Progress
<1>. QED
  BY Invariance, <1>1, PTL

\* The files of a client are a vault, for every set of codes and messages.
THEOREM FilesImplementVault == Spec => VaultSpec
<1>1. Init => Files!VaultInit
  BY NoneAssumption DEF Init, Files!VaultInit, Readable, Inside, Erasing, File, Config, Identity
<1>. QED
  BY <1>1, Invariance, VaultStep, PTL DEF VaultSpec, Files!VaultSpec, Spec

=============================================================================
