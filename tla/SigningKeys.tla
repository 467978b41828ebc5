---------------------------- MODULE SigningKeys -----------------------------
(***************************************************************************)
(* The RSA key set that signs access tokens (oauth/keys.py): the key in    *)
(* memory, the files it survives a restart by, its rotation by an admin    *)
(* (auth.py, a threadpool route) and the minting of tokens, which reads    *)
(* the key and its kid in two steps (oauth/service.py).  A file is named   *)
(* by the key that belongs in it; it is blank from its creation to the     *)
(* write of its contents, wherever a rename takes it meanwhile.            *)
(***************************************************************************)
EXTENDS Naturals, FiniteSets

CONSTANTS Keys, Kids,   \* RSA key pairs and kid labels, drawn at random
          KeyId,        \* KEY_ID, the kid of the first key
          Rotators,     \* threads that may serve a rotation at once
          None

ASSUME ConstantsOK == KeyId \in Kids /\ None \notin Keys \cup Kids

VARIABLES keyFile,    \* the file at private_key_path
          marker,     \* the text of the .kid file: None when absent or empty
          retired,    \* <filename>_retired/: kid -> file
          blank,      \* files created whose contents are not written yet
          up,         \* whether the process is running
          kid, private, public,    \* the attributes of _signing_keys
          rotation,   \* what each rotating thread is doing
          minting,    \* the access token being signed
          issued,     \* history: access tokens handed out, none expired
          drawn,      \* history: keys and kids generated so far
          crashed     \* history: the process has died in the middle of a rotation

files == <<keyFile, marker, retired, blank>>
memory == <<kid, private, public>>
history == <<issued, drawn, crashed>>
vars == <<files, up, memory, rotation, minting, history>>

Stage == {"idle", "begun", "retired", "created", "written", "kid_set", "private_set",
          "installed", "truncated"}
Resting == [stage |-> "idle", kid |-> None, key |-> None]
NoToken == [key |-> None, torn |-> FALSE]

Rotating == \E r \in Rotators : rotation[r].stage # "idle"
Installing == \E r \in Rotators : rotation[r].stage \in {"kid_set", "private_set"}
At(r, stage) == up /\ rotation[r].stage = stage
Move(r, stage) == rotation' = [rotation EXCEPT ![r].stage = stage]
End(r) == rotation' = [rotation EXCEPT ![r] = Resting]

-----------------------------------------------------------------------------
\* _load_current_kid.
LoadedKid_NoDefault(m) == m  \* mutant
LoadedKid(m) == IF m = None THEN KeyId ELSE m

\* The first start: a key is generated, its kid is the default.
Init ==
  /\ \E k \in Keys : /\ keyFile = k /\ private = k /\ public = k
                     /\ drawn = {k, KeyId}
  /\ marker = KeyId /\ kid = KeyId
  /\ retired = [k \in {} |-> None]
  /\ blank = {} /\ up = TRUE
  /\ rotation = [r \in Rotators |-> Resting]
  /\ minting = NoToken /\ issued = {} /\ crashed = FALSE

\* rotate: the new kid extends the current one by a random suffix.
BeginRotation(r, new) ==
  /\ At(r, "idle")
  /\ new \in Kids \ drawn
  /\ rotation' = [rotation EXCEPT ![r] = [stage |-> "begun", kid |-> new, key |-> None]]
  /\ drawn' = drawn \cup {new}
  /\ UNCHANGED <<files, up, memory, minting, issued, crashed>>

\* os.replace onto the path named after self.kid; it raises without a file to move.
RetiredAs_NewKid(r) == rotation[r].kid  \* mutant
RetiredAs(r) == kid

RetireKeyFile(r) ==
  /\ At(r, "begun")
  /\ IF keyFile = None
       THEN End(r) /\ UNCHANGED <<keyFile, retired>>
       ELSE /\ retired' = [k \in DOMAIN retired \cup {RetiredAs(r)} |->
                             IF k = RetiredAs(r) THEN keyFile ELSE retired[k]]
            /\ keyFile' = None
            /\ Move(r, "retired")
  /\ UNCHANGED <<marker, blank, up, memory, minting, history>>

\* os.open with O_EXCL: it raises when another thread's file is there.
CreateKeyFile(r, key) ==
  /\ At(r, "retired")
  /\ key \in Keys \ drawn
  /\ drawn' = drawn \cup {key}
  /\ IF keyFile # None
       THEN End(r) /\ UNCHANGED <<keyFile, blank>>
       ELSE /\ keyFile' = key /\ blank' = blank \cup {key}
            /\ rotation' = [rotation EXCEPT ![r].stage = "created", ![r].key = key]
  /\ UNCHANGED <<marker, retired, up, memory, minting, issued, crashed>>

WriteKeyFile(r) ==
  /\ At(r, "created")
  /\ blank' = blank \ {rotation[r].key}
  /\ Move(r, "written")
  /\ UNCHANGED <<keyFile, marker, retired, up, memory, minting, history>>

\* The three attributes are assigned one by one, without a lock.
SetKid(r) ==
  /\ At(r, "written")
  /\ kid' = rotation[r].kid
  /\ minting' = IF minting.key = None THEN minting ELSE [minting EXCEPT !.torn = TRUE]
  /\ Move(r, "kid_set")
  /\ UNCHANGED <<files, up, private, public, history>>

SetPrivate(r) ==
  /\ At(r, "kid_set")
  /\ private' = rotation[r].key
  /\ Move(r, "private_set")
  /\ UNCHANGED <<files, up, kid, public, minting, history>>

SetPublic(r) ==
  /\ At(r, "private_set")
  /\ public' = rotation[r].key
  /\ Move(r, "installed")
  /\ UNCHANGED <<files, up, kid, private, minting, history>>

\* _persist_current_kid: open with "w", then write self.kid.
TruncateMarker(r) ==
  /\ At(r, "installed")
  /\ marker' = None
  /\ Move(r, "truncated")
  /\ UNCHANGED <<keyFile, retired, blank, up, memory, minting, history>>

Persisted_Default(k) == KeyId  \* mutant
Persisted(k) == k

WriteMarker(r) ==
  /\ At(r, "truncated")
  /\ marker' = Persisted(kid)
  /\ End(r)
  /\ UNCHANGED <<keyFile, retired, blank, up, memory, minting, history>>

\* issue_access_token: the signing key is read first, its kid second.
ReadSigningKey ==
  /\ up /\ minting = NoToken
  /\ minting' = [key |-> private,
                 torn |-> \E r \in Rotators : rotation[r].stage = "kid_set"]
  /\ UNCHANGED <<files, up, memory, rotation, history>>

ReadKid ==
  /\ up /\ minting.key # None
  /\ issued' = issued \cup {[key |-> minting.key, kid |-> kid, torn |-> minting.torn]}
  /\ minting' = NoToken
  /\ UNCHANGED <<files, up, memory, rotation, drawn, crashed>>

\* _verification_key_for_token: the key of that kid, or else the current one.  The
\* lookup is one step here: what it yields in each state is what matters.
VerificationKey_Current(k) == public  \* mutant
VerificationKey(k) ==
  IF k # kid /\ k \in DOMAIN retired THEN retired[k] ELSE public

Verifies(token) == VerificationKey(token.kid) = token.key

\* The process stops, which waits for no rotation.
Stop ==
  /\ up
  /\ up' = FALSE
  /\ crashed' = (crashed \/ Rotating)
  /\ kid' = None /\ private' = None /\ public' = None
  /\ rotation' = [r \in Rotators |-> Resting]
  /\ minting' = NoToken
  /\ UNCHANGED <<files, issued, drawn>>

\* __init__: the key file is loaded, or made when there is none.  A blank file
\* does not parse, and the program does not start.
Start(key) ==
  /\ ~up
  /\ keyFile \notin blank
  /\ \/ keyFile # None /\ key = keyFile /\ UNCHANGED <<keyFile, marker, drawn>>
     \/ /\ keyFile = None /\ key \in Keys \ drawn
        /\ keyFile' = key /\ drawn' = drawn \cup {key}
        /\ marker' = LoadedKid(marker)
  /\ up' = TRUE
  /\ kid' = LoadedKid(marker) /\ private' = key /\ public' = key
  /\ UNCHANGED <<retired, blank, rotation, minting, issued, crashed>>

Next ==
  \/ \E r \in Rotators :
       \/ \E new \in Kids : BeginRotation(r, new)
       \/ RetireKeyFile(r)
       \/ \E key \in Keys : CreateKeyFile(r, key)
       \/ WriteKeyFile(r) \/ SetKid(r) \/ SetPrivate(r) \/ SetPublic(r)
       \/ TruncateMarker(r) \/ WriteMarker(r)
  \/ ReadSigningKey \/ ReadKid
  \/ Stop
  \/ \E key \in Keys : Start(key)

Spec == Init /\ [][Next]_vars

-----------------------------------------------------------------------------
\* Types: files, memory and threads hold keys and kids that were generated.
TypeOK ==
  /\ keyFile \in Keys \cup {None} /\ marker \in Kids \cup {None}
  /\ DOMAIN retired \subseteq Kids /\ \A k \in DOMAIN retired : retired[k] \in Keys
  /\ blank \subseteq Keys /\ up \in BOOLEAN
  /\ IF up THEN kid \in Kids /\ private \in Keys /\ public \in Keys
           ELSE kid = None /\ private = None /\ public = None
  /\ rotation \in [Rotators -> [stage: Stage, kid: Kids \cup {None}, key: Keys \cup {None}]]
  /\ minting \in [key: Keys \cup {None}, torn: BOOLEAN]
  /\ issued \subseteq [key: Keys, kid: Kids, torn: BOOLEAN]
  /\ drawn \subseteq Keys \cup Kids /\ crashed \in BOOLEAN

\* "access tokens already issued keep verifying until they expire naturally"
\* (auth.py:368-371, oauth/keys.py:103-108): whatever was rotated since, while no
\* rotation is between its assignments and none was cut short.
TokensKeepVerifying ==
  up /\ ~Installing /\ ~crashed => \A token \in issued : Verifies(token)

\* The same of every token whose key and kid were read on one side of a rotation.
WholeTokensKeepVerifying ==
  up /\ ~Installing /\ ~crashed => \A token \in issued : token.torn \/ Verifies(token)

\* "Safe to call at any time" (oauth/keys.py:103-108): also when the process dies in
\* the middle of a rotation and is started again.
RotationSurvivesCrash ==
  up /\ ~Installing => \A token \in issued : token.torn \/ Verifies(token)

\* The JWKS never lists one kid with two keys (oauth/keys.py:156-162), as long as no
\* rotation was cut short: between the rename and the assignments the retired file is
\* still the current key.
KidsUnambiguous ==
  up /\ ~crashed /\ kid \in DOMAIN retired => retired[kid] = public

\* With no rotation under way, a restart changes neither the key nor its kid, whatever
\* was cut short before (oauth/keys.py:34-37).
RestartTransparent ==
  up /\ ~Rotating => /\ keyFile = private /\ public = private
                     /\ keyFile \notin blank /\ LoadedKid(marker) = kid
=============================================================================
