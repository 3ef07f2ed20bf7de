----------------------------- MODULE MCRequests -----------------------------
(* Five parts of the platform that share no row and no key, each changed by
   actors that overlap: a field worker's day, a user's sessions, the tree of an
   organization, the switches of the Zoho engine, the images of a collection.  A
   behaviour is one of one part, chosen at the start; the others stay as they
   began, so the state space is the sum of the five.  The two requests (or chords
   of conversions) of every part are the same two values, and so are its two
   shifts, sessions or variants.                                            *)
EXTENDS FieldDay, SignIn, OrgTree, Switches, MediaItems, TLC

CONSTANTS r1, r2, s1, s2

VARIABLE part

fieldVars == vars
allVars == <<part, fieldVars, signInVars, orgTreeVars, switchVars, mediaVars>>

RequestsInit ==
  /\ part \in {"field day", "sign-in", "org tree", "switches", "images"}
  /\ Init /\ SignInInit /\ OrgTreeInit /\ SwitchesInit /\ MediaInit

RequestsNext ==
  /\ UNCHANGED part
  /\ \/ part = "field day" /\ Next /\ UNCHANGED <<signInVars, orgTreeVars, switchVars, mediaVars>>
     \/ part = "sign-in" /\ SignInNext /\ UNCHANGED <<fieldVars, orgTreeVars, switchVars, mediaVars>>
     \/ part = "org tree" /\ OrgTreeNext /\ UNCHANGED <<fieldVars, signInVars, switchVars, mediaVars>>
     \/ part = "switches" /\ SwitchesNext /\ UNCHANGED <<fieldVars, signInVars, orgTreeVars, mediaVars>>
     \/ part = "images" /\ MediaNext /\ UNCHANGED <<fieldVars, signInVars, orgTreeVars, switchVars>>

RequestsSpec == RequestsInit /\ [][RequestsNext]_allVars

Symmetry == Permutations({r1, r2}) \union Permutations({s1, s2})

(* Every variable of the five parts keeps its type. *)
RequestsTypeOK ==
  CASE part = "field day" -> TypeOK
    [] part = "sign-in" -> SignInTypeOK
    [] part = "org tree" -> OrgTreeTypeOK
    [] part = "switches" -> SwitchesTypeOK
    [] part = "images" -> MediaTypeOK
=============================================================================
