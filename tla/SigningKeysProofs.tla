------------------------- MODULE SigningKeysProofs -------------------------
(***************************************************************************)
(* Proofs about SigningKeys: its types for any number of rotations at      *)
(* once; for one at a time, what survives a restart and which tokens       *)
(* verify.  The invariants follow the key from the file to the attributes  *)
(* and its kid from the attribute to the marker, stage by stage.           *)
(***************************************************************************)
EXTENDS SigningKeys, TLAPS

\* The threads of a rotation: what each has drawn by its stage.
Rotation == [stage: Stage, kid: Kids \cup {None}, key: Keys \cup {None}]
RotationOK(q) ==
  /\ q \in Rotation
  /\ q.stage # "idle" => q.kid \in Kids
  /\ q.stage \in {"created", "written", "kid_set", "private_set", "installed", "truncated"}
       => q.key \in Keys

TypeInv ==
  /\ TypeOK
  /\ \A r \in Rotators : RotationOK(rotation[r])
  /\ ~up => minting = NoToken

-----------------------------------------------------------------------------
\* A thread that is not rotating has nothing in its variables.
LEMMA RestingOK == RotationOK(Resting)
BY DEF RotationOK, Rotation, Resting, Stage

\* One thread goes on, the others stay.
LEMMA OneRotation ==
  ASSUME TypeInv, NEW r \in Rotators, NEW q, RotationOK(q),
         rotation' = [rotation EXCEPT ![r] = q]
  PROVE  /\ rotation' \in [Rotators -> Rotation] /\ rotation'[r] = q
         /\ \A o \in Rotators : RotationOK(rotation'[o])
BY DEF TypeInv, TypeOK, RotationOK, Rotation

\* A step of one rotation keeps what the stages say of all of them.
LEMMA MoveOK ==
  ASSUME TypeInv, NEW r \in Rotators, NEW s \in Stage, Move(r, s),
         rotation[r].stage # "idle",
         s \in {"begun", "retired"}
           \/ (s # "created"
               /\ rotation[r].stage \in {"created", "written", "kid_set", "private_set",
                                         "installed"})
  PROVE  /\ rotation' \in [Rotators -> Rotation]
         /\ rotation'[r] = [rotation[r] EXCEPT !.stage = s]
         /\ \A o \in Rotators : RotationOK(rotation'[o])
<1> DEFINE q == [rotation[r] EXCEPT !.stage = s]
<1>1. RotationOK(q)
  BY DEF TypeInv, RotationOK, Rotation
<1>2. rotation' = [rotation EXCEPT ![r] = q]
  BY DEF Move
<1> QED BY <1>1, <1>2, OneRotation

\* So does the end of one.
LEMMA EndOK ==
  ASSUME TypeInv, NEW r \in Rotators, End(r)
  PROVE  /\ rotation' \in [Rotators -> Rotation] /\ rotation'[r] = Resting
         /\ \A o \in Rotators : RotationOK(rotation'[o])
BY OneRotation, RestingOK DEF End

\* The initial files, attributes and threads have their types.
LEMMA InitTypeInv == Init => TypeInv
<1> SUFFICES ASSUME Init PROVE TypeInv
  OBVIOUS
<1>1. \A r \in Rotators : RotationOK(rotation[r])
  BY RestingOK DEF Init
<1>2. rotation \in [Rotators -> Rotation]
  BY RestingOK DEF Init, RotationOK
<1>3. minting \in [key: Keys \cup {None}, torn: BOOLEAN]
  BY DEF Init, NoToken
<1> QED BY <1>1, <1>2, <1>3, ConstantsOK DEF Init, TypeInv, TypeOK, Rotation

\* The steps on files, for one thread.
LEMMA FileStep ==
  ASSUME TypeInv, NEW r \in Rotators,
         \/ \E new \in Kids : BeginRotation(r, new)
         \/ RetireKeyFile(r)
         \/ \E key \in Keys : CreateKeyFile(r, key)
         \/ WriteKeyFile(r)
  PROVE  TypeInv'
<1>1. ASSUME NEW new \in Kids, BeginRotation(r, new) PROVE TypeInv'
  <2> DEFINE q == [stage |-> "begun", kid |-> new, key |-> None]
  <2>1. RotationOK(q)
    BY DEF RotationOK, Rotation, Stage
  <2>2. /\ rotation' \in [Rotators -> Rotation]
        /\ \A o \in Rotators : RotationOK(rotation'[o])
    BY <1>1, <2>1, OneRotation DEF BeginRotation
  <2> QED BY <1>1, <2>2 DEF BeginRotation, TypeInv, TypeOK, Rotation, files, memory
<1>2. CASE RetireKeyFile(r)
  <2>1. /\ rotation' \in [Rotators -> Rotation]
        /\ \A o \in Rotators : RotationOK(rotation'[o])
    BY <1>2, EndOK, MoveOK DEF RetireKeyFile, At, Stage
  <2>2. keyFile' \in Keys \cup {None}
    BY <1>2 DEF RetireKeyFile, TypeInv, TypeOK
  <2>3. DOMAIN retired' \subseteq Kids /\ \A k \in DOMAIN retired' : retired'[k] \in Keys
    BY <1>2 DEF RetireKeyFile, RetiredAs, At, TypeInv, TypeOK
  <2> QED BY <1>2, <2>1, <2>2, <2>3
          DEF RetireKeyFile, TypeInv, TypeOK, Rotation, memory, history
<1>3. ASSUME NEW key \in Keys, CreateKeyFile(r, key) PROVE TypeInv'
  <2> DEFINE q == [rotation[r] EXCEPT !.stage = "created", !.key = key]
  <2>1. /\ rotation' \in [Rotators -> Rotation]
        /\ \A o \in Rotators : RotationOK(rotation'[o])
    <3>1. CASE keyFile # None
      BY <1>3, <3>1, EndOK DEF CreateKeyFile
    <3>2. CASE keyFile = None
      <4>1. RotationOK(q)
        BY <1>3 DEF CreateKeyFile, At, TypeInv, RotationOK, Rotation, Stage
      <4>2. rotation' = [rotation EXCEPT ![r] = q]
        BY <1>3, <3>2 DEF CreateKeyFile
      <4> QED BY <4>1, <4>2, OneRotation
    <3> QED BY <3>1, <3>2
  <2>2. keyFile' \in Keys \cup {None} /\ blank' \subseteq Keys /\ drawn' \subseteq Keys \cup Kids
    BY <1>3 DEF CreateKeyFile, TypeInv, TypeOK
  <2> QED BY <1>3, <2>1, <2>2 DEF CreateKeyFile, TypeInv, TypeOK, Rotation, memory
<1>4. CASE WriteKeyFile(r)
  <2>1. /\ rotation' \in [Rotators -> Rotation]
        /\ \A o \in Rotators : RotationOK(rotation'[o])
    BY <1>4, MoveOK DEF WriteKeyFile, At, Stage
  <2> QED BY <1>4, <2>1 DEF WriteKeyFile, TypeInv, TypeOK, Rotation, memory, history
<1> QED BY <1>1, <1>2, <1>3, <1>4

\* The steps on the attributes and the marker, for one thread.
LEMMA InstallStep ==
  ASSUME TypeInv, NEW r \in Rotators,
         \/ SetKid(r) \/ SetPrivate(r) \/ SetPublic(r) \/ TruncateMarker(r) \/ WriteMarker(r)
  PROVE  TypeInv'
<1>1. CASE SetKid(r)
  <2>1. /\ rotation' \in [Rotators -> Rotation]
        /\ \A o \in Rotators : RotationOK(rotation'[o])
    BY <1>1, MoveOK DEF SetKid, At, Stage
  <2>2. kid' \in Kids /\ up
    BY <1>1 DEF SetKid, At, TypeInv, RotationOK
  <2>3. minting' \in [key: Keys \cup {None}, torn: BOOLEAN]
    BY <1>1 DEF SetKid, TypeInv, TypeOK
  <2> QED BY <1>1, <2>1, <2>2, <2>3 DEF SetKid, TypeInv, TypeOK, Rotation, files, history
<1>2. CASE SetPrivate(r)
  <2>1. /\ rotation' \in [Rotators -> Rotation]
        /\ \A o \in Rotators : RotationOK(rotation'[o])
    BY <1>2, MoveOK DEF SetPrivate, At, Stage
  <2>2. private' \in Keys /\ up
    BY <1>2 DEF SetPrivate, At, TypeInv, RotationOK
  <2> QED BY <1>2, <2>1, <2>2 DEF SetPrivate, TypeInv, TypeOK, Rotation, files, history
<1>3. CASE SetPublic(r)
  <2>1. /\ rotation' \in [Rotators -> Rotation]
        /\ \A o \in Rotators : RotationOK(rotation'[o])
    BY <1>3, MoveOK DEF SetPublic, At, Stage
  <2>2. public' \in Keys /\ up
    BY <1>3 DEF SetPublic, At, TypeInv, RotationOK
  <2> QED BY <1>3, <2>1, <2>2 DEF SetPublic, TypeInv, TypeOK, Rotation, files, history
<1>4. CASE TruncateMarker(r)
  <2>1. /\ rotation' \in [Rotators -> Rotation]
        /\ \A o \in Rotators : RotationOK(rotation'[o])
    BY <1>4, MoveOK DEF TruncateMarker, At, Stage
  <2> QED BY <1>4, <2>1 DEF TruncateMarker, TypeInv, TypeOK, Rotation, memory, history
<1>5. CASE WriteMarker(r)
  <2>1. /\ rotation' \in [Rotators -> Rotation]
        /\ \A o \in Rotators : RotationOK(rotation'[o])
    BY <1>5, EndOK DEF WriteMarker
  <2>2. marker' \in Kids
    BY <1>5 DEF WriteMarker, At, Persisted, TypeInv, TypeOK
  <2> QED BY <1>5, <2>1, <2>2 DEF WriteMarker, TypeInv, TypeOK, Rotation, memory, history
<1> QED BY <1>1, <1>2, <1>3, <1>4, <1>5

\* The two reads of a token being signed.
LEMMA MintStep ==
  ASSUME TypeInv, ReadSigningKey \/ ReadKid
  PROVE  TypeInv'
<1>1. CASE ReadSigningKey
  <2>1. minting' \in [key: Keys \cup {None}, torn: BOOLEAN]
    BY <1>1 DEF ReadSigningKey, TypeInv, TypeOK
  <2> QED BY <1>1, <2>1 DEF ReadSigningKey, TypeInv, TypeOK, files, memory, history
<1>2. CASE ReadKid
  <2>1. minting' \in [key: Keys \cup {None}, torn: BOOLEAN]
    BY <1>2 DEF ReadKid, NoToken
  <2>2. [key |-> minting.key, kid |-> kid, torn |-> minting.torn]
          \in [key: Keys, kid: Kids, torn: BOOLEAN]
    BY <1>2 DEF ReadKid, TypeInv, TypeOK
  <2> QED BY <1>2, <2>1, <2>2 DEF ReadKid, TypeInv, TypeOK, files, memory
<1> QED BY <1>1, <1>2

\* The process stops, or starts and loads its files.
LEMMA ProcessStep ==
  ASSUME TypeInv, Stop \/ \E key \in Keys : Start(key)
  PROVE  TypeInv'
<1>1. CASE Stop
  <2>1. /\ rotation' \in [Rotators -> Rotation]
        /\ \A o \in Rotators : RotationOK(rotation'[o])
    BY <1>1, RestingOK DEF Stop, RotationOK
  <2>2. minting' = NoToken /\ minting' \in [key: Keys \cup {None}, torn: BOOLEAN]
    BY <1>1 DEF Stop, NoToken
  <2>3. crashed' \in BOOLEAN
    BY <1>1 DEF Stop, TypeInv, TypeOK, Rotating
  <2> QED BY <1>1, <2>1, <2>2, <2>3 DEF Stop, TypeInv, TypeOK, Rotation, files
<1>2. ASSUME NEW key \in Keys, Start(key) PROVE TypeInv'
  <2>1. kid' \in Kids /\ marker' \in Kids \cup {None}
    BY <1>2, ConstantsOK DEF Start, LoadedKid, TypeInv, TypeOK
  <2>2. keyFile' \in Keys \cup {None} /\ drawn' \subseteq Keys \cup Kids
    BY <1>2 DEF Start, TypeInv, TypeOK
  <2> QED BY <1>2, <2>1, <2>2 DEF Start, TypeInv, TypeOK
<1> QED BY <1>1, <1>2

\* TypeInv is inductive.
LEMMA NextTypeInv == TypeInv /\ [Next]_vars => TypeInv'
<1> SUFFICES ASSUME TypeInv, [Next]_vars PROVE TypeInv'
  OBVIOUS
<1>1. CASE UNCHANGED vars
  BY <1>1 DEF vars, files, memory, history, TypeInv, TypeOK
<1> QED BY <1>1, FileStep, InstallStep, MintStep, ProcessStep DEF Next

\* TypeInv holds of every behaviour.
LEMMA TypeInvariant == Spec => []TypeInv
BY InitTypeInv, NextTypeInv, PTL DEF Spec

\* Files, attributes and threads hold keys and kids that were generated, for any number
\* of rotations at once (oauth/keys.py:26-122).
THEOREM TypeCorrect == Spec => []TypeOK
<1>1. TypeInv => TypeOK
  BY DEF TypeInv
<1> QED BY <1>1, TypeInvariant, PTL

-----------------------------------------------------------------------------
\* One rotation at a time.
OneRotator == \E r : Rotators = {r}

Current == LoadedKid(marker)   \* the kid that a restart loads
Filed(t) == t.kid \in DOMAIN retired /\ retired[t.kid] = t.key
Begun == {"begun", "retired", "created", "written"}
Taken == {"retired", "created", "written"}
Assigned == {"private_set", "installed", "truncated"}

\* Kids are generated once.
DrawnInv ==
  /\ Current \in drawn /\ KeyId \in drawn /\ DOMAIN retired \subseteq drawn
  /\ blank \subseteq drawn
  /\ up => kid \in drawn
  /\ \A r \in Rotators : rotation[r].stage # "idle" => rotation[r].kid \in drawn

\* What the key file, the marker and the attributes have to do with each other at each
\* stage of the rotation, cut short or not.
StageInv ==
  \A r \in Rotators : LET q == rotation[r] IN
    /\ ~up => q.stage = "idle"
    /\ up =>
          /\ q.stage \in {"idle", "begun"} => keyFile = private /\ keyFile \notin blank
          /\ q.stage = "retired" => keyFile = None
          /\ q.stage \in {"created", "written", "kid_set"} \cup Assigned => keyFile = q.key
          /\ q.stage \in {"written", "kid_set"} \cup Assigned => keyFile \notin blank
          /\ q.stage \in {"idle"} \cup Begun => kid = Current
          /\ q.stage \in {"kid_set"} \cup Assigned => kid = q.kid
          /\ q.stage \in Assigned => private = q.key
          /\ q.stage # "private_set" => public = private
          /\ minting.key # None /\ ~minting.torn => q.stage # "kid_set" /\ minting.key = private

\* Unless a rotation was cut short, each kid up to the last has its key in a retired
\* file, and the last its own in the key file.
ServedInv ==
  ~crashed =>
    /\ ~up => /\ keyFile # None /\ Current \notin DOMAIN retired
              /\ \A t \in issued : t.torn \/ Filed(t) \/ (t.kid = Current /\ t.key = keyFile)
    /\ up => \A r \in Rotators : LET q == rotation[r] IN
         /\ q.stage # "idle" => q.kid \notin DOMAIN retired
         /\ q.stage = "begun" => q.kid # Current
         /\ q.stage \in {"idle", "begun"} =>
              /\ Current \notin DOMAIN retired
              /\ \A t \in issued : t.torn \/ Filed(t) \/ (t.kid = kid /\ t.key = private)
         /\ q.stage \in Taken =>
              /\ kid \in DOMAIN retired /\ retired[kid] = private
              /\ \A t \in issued : t.torn \/ Filed(t)
         /\ q.stage = "kid_set" => \A t \in issued : t.torn \/ Filed(t)
         /\ q.stage \in Assigned =>
              \A t \in issued : t.torn \/ Filed(t) \/ (t.kid = q.kid /\ t.key = q.key)

KeyInv == TypeInv /\ DrawnInv /\ StageInv /\ ServedInv

-----------------------------------------------------------------------------
\* Without a marker the kid is the default one; with one it is what the marker says.
LEMMA Unloaded == /\ LoadedKid(None) = KeyId /\ \A k \in Kids : LoadedKid(k) = k
BY ConstantsOK DEF LoadedKid

\* At first nothing is retired or handed out, and the current kid is the default one.
LEMMA InitKeyInv == ASSUME OneRotator PROVE Init => KeyInv
<1> SUFFICES ASSUME Init PROVE KeyInv
  OBVIOUS
<1>1. Current = KeyId
  BY Unloaded, ConstantsOK DEF Init, Current
<1>2. \A r \in Rotators : rotation[r].stage = "idle"
  BY DEF Init, Resting
<1>3. minting.key = None
  BY DEF Init, NoToken
<1>4. DrawnInv
  BY <1>1, <1>2 DEF Init, DrawnInv
<1>5. StageInv
  BY <1>1, <1>2, <1>3 DEF Init, StageInv, Begun, Assigned
<1>6. ServedInv
  BY <1>1, <1>2 DEF Init, ServedInv, Taken, Assigned
<1> QED BY <1>4, <1>5, <1>6, InitTypeInv DEF KeyInv

\* What a step of the one rotation does to its record.
LEMMA Moved ==
  ASSUME KeyInv, NEW r \in Rotators, NEW s, Move(r, s)
  PROVE  /\ rotation'[r].stage = s /\ rotation'[r].kid = rotation[r].kid
         /\ rotation'[r].key = rotation[r].key
BY DEF Move, KeyInv, TypeInv, TypeOK

\* The thread of a rotation that ends is idle.
LEMMA Ended ==
  ASSUME KeyInv, NEW r \in Rotators, End(r)
  PROVE  rotation'[r] = Resting /\ rotation'[r].stage = "idle"
BY DEF End, KeyInv, TypeInv, TypeOK, Resting

\* The kid of a rotation is new: nothing retired or handed out has it.
LEMMA BeginKeyStep ==
  ASSUME KeyInv, NEW r, Rotators = {r}, NEW new \in Kids, BeginRotation(r, new)
  PROVE  DrawnInv' /\ StageInv' /\ ServedInv'
<1> USE DEF files, memory
<1>1. /\ rotation[r].stage = "idle" /\ up
      /\ rotation'[r] = [stage |-> "begun", kid |-> new, key |-> None]
  BY DEF BeginRotation, At, KeyInv, TypeInv, TypeOK
<1>2. new \notin drawn /\ Current' = Current
  BY DEF BeginRotation, Current
<1>3. DrawnInv'
  BY <1>1, <1>2 DEF KeyInv, DrawnInv, BeginRotation
<1>4. StageInv'
  BY <1>1, <1>2 DEF KeyInv, StageInv, BeginRotation, Begun, Assigned
<1>5. ServedInv'
  BY <1>1, <1>2 DEF KeyInv, ServedInv, DrawnInv, BeginRotation, Taken, Assigned, Filed
<1> QED BY <1>3, <1>4, <1>5

\* The rename puts the old key where its kid leads once the new one is current.
LEMMA RetireKeyStep ==
  ASSUME KeyInv, NEW r, Rotators = {r}, RetireKeyFile(r)
  PROVE  DrawnInv' /\ StageInv' /\ ServedInv'
<1> USE DEF memory, history
<1>1. /\ rotation[r].stage = "begun" /\ up /\ kid = Current
      /\ keyFile = private /\ private \in Keys
  BY DEF RetireKeyFile, At, KeyInv, StageInv, TypeInv, TypeOK, Begun
<1>2. /\ keyFile' = None /\ DOMAIN retired' = DOMAIN retired \cup {kid}
      /\ retired'[kid] = private
      /\ \A k \in DOMAIN retired : k # kid => retired'[k] = retired[k]
      /\ Move(r, "retired")
  BY <1>1, ConstantsOK DEF RetireKeyFile, RetiredAs
<1>3. /\ rotation'[r].stage = "retired" /\ rotation'[r].kid = rotation[r].kid
  BY <1>2, Moved
<1>4. Current' = Current /\ UNCHANGED <<marker, blank, up, kid, private, public, minting>>
      /\ UNCHANGED <<issued, drawn, crashed>>
  BY DEF RetireKeyFile, Current
<1>5. DrawnInv'
  BY <1>1, <1>2, <1>3, <1>4 DEF KeyInv, DrawnInv
<1>6. StageInv'
  BY <1>1, <1>2, <1>3, <1>4 DEF KeyInv, StageInv, Begun, Assigned
<1>7. ServedInv'
  <2> SUFFICES ASSUME ~crashed PROVE ServedInv'
    BY <1>4 DEF ServedInv
  <2>1. /\ rotation[r].kid \notin DOMAIN retired /\ rotation[r].kid # kid
        /\ kid \notin DOMAIN retired
        /\ \A t \in issued : t.torn \/ Filed(t) \/ (t.kid = kid /\ t.key = private)
    BY <1>1 DEF KeyInv, ServedInv
  <2>2. \A t \in issued : t.torn \/ Filed(t)'
    BY <1>2, <2>1 DEF Filed
  <2> QED BY <1>1, <1>2, <1>3, <1>4, <2>1, <2>2 DEF ServedInv, Taken, Assigned
<1> QED BY <1>5, <1>6, <1>7

\* The new key was never drawn before, so nothing handed out was signed with it.
LEMMA CreateKeyStep ==
  ASSUME KeyInv, NEW r, Rotators = {r}, NEW key \in Keys, CreateKeyFile(r, key)
  PROVE  DrawnInv' /\ StageInv' /\ ServedInv'
<1> USE DEF memory
<1>1. rotation[r].stage = "retired" /\ up /\ keyFile = None
  BY DEF CreateKeyFile, At, KeyInv, StageInv
<1>2. /\ keyFile' = key /\ blank' = blank \cup {key} /\ drawn' = drawn \cup {key}
      /\ rotation'[r].stage = "created" /\ rotation'[r].key = key
      /\ rotation'[r].kid = rotation[r].kid
  BY <1>1 DEF CreateKeyFile, KeyInv, TypeInv, TypeOK
<1>3. /\ UNCHANGED <<marker, retired, up, kid, private, public, minting, issued, crashed>>
      /\ Current' = Current
  BY DEF CreateKeyFile, Current
<1>4. DrawnInv'
  BY <1>1, <1>2, <1>3 DEF KeyInv, DrawnInv
<1>5. StageInv'
  BY <1>1, <1>2, <1>3 DEF KeyInv, StageInv, Begun, Assigned
<1>6. ServedInv'
  BY <1>1, <1>2, <1>3 DEF KeyInv, ServedInv, Taken, Assigned, Filed
<1> QED BY <1>4, <1>5, <1>6

\* The key file is no longer blank, and the attributes still have the old key.
LEMMA WriteKeyStep ==
  ASSUME KeyInv, NEW r, Rotators = {r}, WriteKeyFile(r)
  PROVE  DrawnInv' /\ StageInv' /\ ServedInv'
<1> USE DEF memory, history
<1>1. rotation[r].stage = "created" /\ up /\ blank' = blank \ {rotation[r].key}
  BY DEF WriteKeyFile, At
<1>2. /\ rotation'[r].stage = "written" /\ rotation'[r].kid = rotation[r].kid
      /\ rotation'[r].key = rotation[r].key
  BY Moved DEF WriteKeyFile
<1>3. /\ UNCHANGED <<keyFile, marker, retired, up, kid, private, public, minting, issued,
                     drawn, crashed>>
      /\ Current' = Current
  BY DEF WriteKeyFile, Current
<1>4. DrawnInv'
  BY <1>1, <1>2, <1>3 DEF KeyInv, DrawnInv
<1>5. StageInv'
  BY <1>1, <1>2, <1>3 DEF KeyInv, StageInv, Begun, Assigned
<1>6. ServedInv'
  BY <1>1, <1>2, <1>3 DEF KeyInv, ServedInv, Taken, Assigned, Filed
<1> QED BY <1>4, <1>5, <1>6

\* The assignments: the token that is being signed meanwhile is torn.
LEMMA SetKidStep ==
  ASSUME KeyInv, NEW r, Rotators = {r}, SetKid(r)
  PROVE  DrawnInv' /\ StageInv' /\ ServedInv'
<1> USE DEF files, history
<1>1. rotation[r].stage = "written" /\ up /\ kid' = rotation[r].kid
  BY DEF SetKid, At
<1>2. /\ rotation'[r].stage = "kid_set" /\ rotation'[r].kid = rotation[r].kid
      /\ rotation'[r].key = rotation[r].key
  BY Moved DEF SetKid
<1>3. /\ UNCHANGED <<keyFile, marker, retired, blank, up, private, public, issued, drawn,
                     crashed>>
      /\ Current' = Current
  BY DEF SetKid, Current
<1>4. minting'.key = None \/ minting'.torn = TRUE
  BY DEF SetKid, KeyInv, TypeInv, TypeOK
<1>5. DrawnInv'
  BY <1>1, <1>2, <1>3 DEF KeyInv, DrawnInv
<1>6. StageInv'
  BY <1>1, <1>2, <1>3, <1>4 DEF KeyInv, StageInv, Begun, Assigned
<1>7. ServedInv'
  BY <1>1, <1>2, <1>3 DEF KeyInv, ServedInv, Taken, Assigned, Filed
<1> QED BY <1>5, <1>6, <1>7

\* The attributes take the new key; all that was handed out is filed.
LEMMA SetKeysStep ==
  ASSUME KeyInv, NEW r, Rotators = {r}, SetPrivate(r) \/ SetPublic(r)
  PROVE  DrawnInv' /\ StageInv' /\ ServedInv'
<1> USE DEF files, history
<1>1. /\ \/ /\ rotation[r].stage = "kid_set" /\ rotation'[r].stage = "private_set"
            /\ private' = rotation[r].key /\ public' = public
         \/ /\ rotation[r].stage = "private_set" /\ rotation'[r].stage = "installed"
            /\ public' = rotation[r].key /\ private' = private
      /\ up
      /\ rotation'[r].kid = rotation[r].kid /\ rotation'[r].key = rotation[r].key
  BY Moved DEF SetPrivate, SetPublic, At
<1>2. /\ UNCHANGED <<keyFile, marker, retired, blank, up, kid, minting, issued, drawn, crashed>>
      /\ Current' = Current
  BY DEF SetPrivate, SetPublic, Current
<1>3. DrawnInv'
  BY <1>1, <1>2 DEF KeyInv, DrawnInv
<1>4. StageInv'
  BY <1>1, <1>2 DEF KeyInv, StageInv, Begun, Assigned
<1>5. ServedInv'
  BY <1>1, <1>2 DEF KeyInv, ServedInv, Taken, Assigned, Filed
<1> QED BY <1>3, <1>4, <1>5

\* The marker takes the new kid; from there on a restart loads what is in memory.
LEMMA MarkerStep ==
  ASSUME KeyInv, NEW r, Rotators = {r}, TruncateMarker(r) \/ WriteMarker(r)
  PROVE  DrawnInv' /\ StageInv' /\ ServedInv'
<1> USE DEF memory, history
<1>1. /\ UNCHANGED <<keyFile, retired, blank, up, kid, private, public, minting, issued,
                     drawn, crashed>>
  BY DEF TruncateMarker, WriteMarker
<1>2. CASE TruncateMarker(r)
  <2>1. /\ rotation[r].stage = "installed" /\ rotation'[r].stage = "truncated" /\ up
        /\ rotation'[r].kid = rotation[r].kid /\ rotation'[r].key = rotation[r].key
        /\ Current' = KeyId
    BY <1>2, Moved, Unloaded DEF TruncateMarker, At, Current
  <2>2. DrawnInv'
    BY <1>1, <2>1 DEF KeyInv, DrawnInv
  <2>3. StageInv'
    BY <1>1, <2>1 DEF KeyInv, StageInv, Begun, Assigned
  <2>4. ServedInv'
    BY <1>1, <2>1 DEF KeyInv, ServedInv, Taken, Assigned, Filed
  <2> QED BY <2>2, <2>3, <2>4
<1>3. CASE WriteMarker(r)
  <2>1. /\ rotation[r].stage = "truncated" /\ rotation'[r].stage = "idle" /\ up
        /\ marker' = kid /\ kid \in Kids
    BY <1>3, Ended DEF WriteMarker, At, Persisted, KeyInv, TypeInv, TypeOK
  <2>2. Current' = kid
    BY <2>1, Unloaded DEF Current
  <2>3. DrawnInv'
    BY <1>1, <2>1, <2>2 DEF KeyInv, DrawnInv
  <2>4. StageInv'
    BY <1>1, <2>1, <2>2 DEF KeyInv, StageInv, Begun, Assigned
  <2>5. ServedInv'
    BY <1>1, <2>1, <2>2 DEF KeyInv, StageInv, ServedInv, Taken, Assigned, Filed
  <2> QED BY <2>3, <2>4, <2>5
<1> QED BY <1>2, <1>3

\* A token is signed with the key in memory, and is torn between SetKid and SetPrivate.
LEMMA ReadSigningKeyStep ==
  ASSUME KeyInv, NEW r, Rotators = {r}, ReadSigningKey
  PROVE  DrawnInv' /\ StageInv' /\ ServedInv'
<1> USE DEF files, memory, history
<1>1. /\ UNCHANGED <<keyFile, marker, retired, blank, up, kid, private, public, rotation,
                     issued, drawn, crashed>>
      /\ Current' = Current
  BY DEF ReadSigningKey, Current
<1>2. /\ minting'.key = private
      /\ rotation[r].stage = "kid_set" => minting'.torn
  BY DEF ReadSigningKey
<1>3. DrawnInv'
  BY <1>1 DEF KeyInv, DrawnInv
<1>4. StageInv'
  BY <1>1, <1>2 DEF KeyInv, StageInv, Begun, Assigned
<1>5. ServedInv'
  BY <1>1 DEF KeyInv, ServedInv, Taken, Assigned, Filed
<1> QED BY <1>3, <1>4, <1>5

\* The token handed out is torn, or has the key that its kid stands for at this stage.
LEMMA ReadKidStep ==
  ASSUME KeyInv, NEW r, Rotators = {r}, ReadKid
  PROVE  DrawnInv' /\ StageInv' /\ ServedInv'
<1> USE DEF files, memory
<1> DEFINE new == [key |-> minting.key, kid |-> kid, torn |-> minting.torn]
<1>1. /\ UNCHANGED <<keyFile, marker, retired, blank, up, kid, private, public, rotation,
                     drawn, crashed>>
      /\ Current' = Current /\ issued' = issued \cup {new} /\ up
  BY DEF ReadKid, Current
<1>2. minting'.key = None /\ minting.key # None
  BY DEF ReadKid, NoToken
<1>3. DrawnInv'
  BY <1>1 DEF KeyInv, DrawnInv
<1>4. StageInv'
  BY <1>1, <1>2 DEF KeyInv, StageInv, Begun, Assigned
<1>5. \/ new.torn
      \/ new.kid = kid /\ new.key = private /\ rotation[r].stage # "kid_set"
  BY <1>1, <1>2 DEF KeyInv, StageInv
<1>6. ServedInv'
  <2> HIDE DEF new
  <2> QED BY <1>1, <1>5 DEF KeyInv, StageInv, TypeInv, RotationOK, Rotation, Stage, ServedInv,
                            Taken, Assigned, Filed
<1> QED BY <1>3, <1>4, <1>6

\* A stop between two rotations leaves files that the next start loads; another is a crash.
LEMMA StopStep ==
  ASSUME KeyInv, NEW r, Rotators = {r}, Stop
  PROVE  DrawnInv' /\ StageInv' /\ ServedInv'
<1> USE DEF files
<1>1. /\ UNCHANGED <<keyFile, marker, retired, blank, issued, drawn>> /\ up /\ ~up'
      /\ Current' = Current /\ crashed' = (crashed \/ Rotating)
      /\ rotation'[r].stage = "idle"
  BY DEF Stop, Current, Resting
<1>2. DrawnInv'
  BY <1>1 DEF KeyInv, DrawnInv
<1>3. StageInv'
  BY <1>1 DEF StageInv
<1>4. ServedInv'
  <2> SUFFICES ASSUME ~crashed' PROVE ServedInv'
    BY DEF ServedInv
  <2>1. ~crashed /\ rotation[r].stage = "idle"
    BY <1>1 DEF Rotating
  <2>2. keyFile = private /\ private \in Keys /\ kid = Current
    BY <1>1, <2>1 DEF KeyInv, StageInv, TypeInv, TypeOK
  <2> QED BY <1>1, <2>1, <2>2, ConstantsOK DEF KeyInv, ServedInv, Filed
<1> QED BY <1>2, <1>3, <1>4

\* A start loads the key and the kid that were in memory, unless a rotation was cut short.
LEMMA StartStep ==
  ASSUME KeyInv, NEW r, Rotators = {r}, NEW key \in Keys, Start(key)
  PROVE  DrawnInv' /\ StageInv' /\ ServedInv'
<1>1. /\ ~up /\ up' /\ kid' = Current /\ private' = key /\ public' = key
      /\ UNCHANGED <<retired, blank, rotation, minting, issued, crashed>>
      /\ keyFile' = key /\ (keyFile # None => keyFile = key)
      /\ keyFile' \notin blank /\ drawn \subseteq drawn'
  BY DEF Start, Current, KeyInv, DrawnInv
<1>2. Current' = Current
  BY Unloaded, ConstantsOK DEF Start, Current, LoadedKid, KeyInv, TypeInv, TypeOK
<1>3. rotation[r].stage = "idle" /\ minting.key = None
  BY <1>1 DEF KeyInv, StageInv, TypeInv, NoToken
<1>4. DrawnInv'
  BY <1>1, <1>2, <1>3 DEF KeyInv, DrawnInv
<1>5. StageInv'
  BY <1>1, <1>2, <1>3 DEF StageInv, Begun, Assigned
<1>6. ServedInv'
  BY <1>1, <1>2, <1>3 DEF KeyInv, ServedInv, Taken, Assigned, Filed
<1> QED BY <1>4, <1>5, <1>6

\* KeyInv is inductive.
LEMMA NextKeyInv == ASSUME OneRotator PROVE KeyInv /\ [Next]_vars => KeyInv'
<1> SUFFICES ASSUME KeyInv, [Next]_vars PROVE DrawnInv' /\ StageInv' /\ ServedInv'
  BY NextTypeInv DEF KeyInv
<1> PICK r : Rotators = {r}
  BY DEF OneRotator
<1>1. CASE UNCHANGED vars
  BY <1>1 DEF vars, files, memory, history, KeyInv, DrawnInv, StageInv, ServedInv, Current,
              Filed
<1>2. CASE Next
  BY <1>2, BeginKeyStep, RetireKeyStep, CreateKeyStep, WriteKeyStep, SetKidStep, SetKeysStep,
     MarkerStep, ReadSigningKeyStep, ReadKidStep, StopStep, StartStep DEF Next
<1> QED BY <1>1, <1>2

\* KeyInv holds of every behaviour with one rotation at a time.
LEMMA KeyInvariant == ASSUME OneRotator PROVE Spec => []KeyInv
BY InitKeyInv, NextKeyInv, PTL DEF Spec

\* With one rotation at a time and whatever was cut short, a restart between rotations
\* changes neither the key nor its kid (oauth/keys.py:34-37).
THEOREM RestartsAreTransparent == ASSUME OneRotator PROVE Spec => []RestartTransparent
<1>1. KeyInv => RestartTransparent
  <2> SUFFICES ASSUME KeyInv, up, ~Rotating
               PROVE  /\ keyFile = private /\ public = private
                      /\ keyFile \notin blank /\ LoadedKid(marker) = kid
    BY DEF RestartTransparent
  <2> PICK r : Rotators = {r}
    BY DEF OneRotator
  <2> QED BY DEF Rotating, KeyInv, StageInv, Current
<1> QED BY <1>1, KeyInvariant, PTL

\* With one rotation at a time, none cut short, no kid is served with two keys
\* (oauth/keys.py:156-162).
THEOREM KidsHaveOneKey == ASSUME OneRotator PROVE Spec => []KidsUnambiguous
<1>1. KeyInv => KidsUnambiguous
  <2> SUFFICES ASSUME KeyInv, up, ~crashed, kid \in DOMAIN retired
               PROVE  retired[kid] = public
    BY DEF KidsUnambiguous
  <2> PICK r : Rotators = {r}
    BY DEF OneRotator
  <2>1. rotation[r].stage \in Taken
    BY DEF KeyInv, TypeInv, RotationOK, Rotation, Stage, StageInv, ServedInv, Taken, Begun,
           Assigned
  <2> QED BY <2>1 DEF KeyInv, StageInv, ServedInv, Taken
<1> QED BY <1>1, KeyInvariant, PTL

\* With one rotation at a time, none cut short, a token whose key and kid were read on one
\* side of every rotation verifies, however many rotations and restarts later
\* (oauth/keys.py:103-108, 130-139).
THEOREM TokensVerify == ASSUME OneRotator PROVE Spec => []WholeTokensKeepVerifying
<1>1. KeyInv => WholeTokensKeepVerifying
  <2> SUFFICES ASSUME KeyInv, up, ~Installing, ~crashed, NEW t \in issued, ~t.torn
               PROVE  Verifies(t)
    BY DEF WholeTokensKeepVerifying
  <2> PICK r : Rotators = {r}
    BY DEF OneRotator
  <2>1. rotation[r].stage \in {"idle"} \cup Begun \cup {"installed", "truncated"}
    BY DEF KeyInv, TypeInv, RotationOK, Rotation, Stage, Installing, Begun
  <2>2. public = private
    BY <2>1 DEF KeyInv, StageInv, Begun
  <2>3. CASE rotation[r].stage \in {"idle", "begun"}
    BY <2>2, <2>3 DEF KeyInv, StageInv, ServedInv, Begun, Filed, Verifies, VerificationKey
  <2>4. CASE rotation[r].stage \in Taken
    BY <2>2, <2>4 DEF KeyInv, ServedInv, Filed, Verifies, VerificationKey
  <2>5. CASE rotation[r].stage \in {"installed", "truncated"}
    BY <2>2, <2>5 DEF KeyInv, StageInv, ServedInv, Assigned, Filed, Verifies, VerificationKey
  <2> QED BY <2>1, <2>3, <2>4, <2>5 DEF Begun, Taken
<1> QED BY <1>1, KeyInvariant, PTL
=============================================================================
