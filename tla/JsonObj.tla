------------------------------ MODULE JsonObj -------------------------------
(***************************************************************************)
(* jsonconfig.Obj: a configuration object that a program reads key by key  *)
(* with the RequiredT and OptionalT accessors and checks with Validate. The *)
(* bookkeeping is kept in the object itself, under "_knownkeys" and        *)
(* "_errors". A value is its kind: what the accessors tell apart.          *)
(***************************************************************************)
EXTENDS Integers, SequencesExt

CONSTANTS
  Key,        \* the keys a program asks for
  Comment,    \* keys of the file that begin with an underscore
  MaxAsked,   \* bound on the number of different accessor calls
  MaxErrs     \* bound on the number of recorded errors before a call

ASSUME KeyAssumption == IsFiniteSet(Key)
ASSUME BoundsAssumption == MaxAsked \in Nat /\ MaxErrs \in Nat

\* A string may be a boolean ("boolstr") or not, a list all strings or "mixed".
Kind == {"object", "boolstr", "string", "bool", "number", "list", "mixed"}
Absent == "absent"

\* The kinds each accessor accepts; int and int64 are alike.
Accepts ==
  [obj            |-> {"object"},
   string         |-> {"boolstr", "string"},
   stringOrObject |-> {"object", "boolstr", "string"},
   bool           |-> {"bool", "boolstr"},
   int            |-> {"number"},
   requiredList   |-> {"list"}]

VARIABLES
  obj,        \* the file's keys
  known,      \* the keys of "_knownkeys"
  errs,       \* "_errors"
  panicked,   \* a type assertion on the bookkeeping failed
  asked,      \* history: the accessor calls made
  unread,     \* history: the keys a Validate has found unread
  valid       \* what Validate has returned since the last call: "none", "nil", "err"

objVars == <<obj, known, errs, panicked, asked, unread, valid>>

ObjInit ==
  /\ obj \in [Key \cup Comment -> Kind \cup {Absent}]
  /\ \A c \in Comment : obj[c] \in {"string", Absent}
  /\ known = {} /\ errs = <<>> /\ panicked = FALSE
  /\ asked = {} /\ unread = {} /\ valid = "none"

\* The file has a key of its own where the bookkeeping should be.
Taken(c) == c \in Comment /\ obj[c] # Absent

-----------------------------------------------------------------------------
(* Slips the properties below must catch; no specification uses them.      *)

\* UnknownKeys knows a key by its presence in the file.
UnknownKeysNone == {k \in Key \cap known : obj[k] # Absent}

-----------------------------------------------------------------------------
noteKnownKey(k) == known' = known \cup {k}

appendError(es) == errs' = errs \o es

\* Keys with a leading underscore are comments.
UnknownKeys == {k \in Key \ known : obj[k] # Absent}

\* Whether the accessor a has something to return for k.
Usable(a, k, required) ==
  \/ obj[k] = Absent /\ ~required
  \/ obj[k] \in Accepts[a]

\* RequiredT and OptionalT: obj, string, stringOrObject, bool, int, int64,
\* requiredList.
Get(a, k, required) ==
  LET call == <<a, k, required>> IN
  /\ ~panicked /\ ~Taken("_knownkeys")
  /\ Cardinality(asked \cup {call}) <= MaxAsked
  /\ noteKnownKey(k)
  /\ asked' = asked \cup {call}
  /\ IF Usable(a, k, required)
     THEN UNCHANGED errs
     ELSE /\ Len(errs) < MaxErrs /\ ~Taken("_errors")
          /\ appendError(<<call>>)
  /\ valid' = "none"
  /\ UNCHANGED <<obj, panicked, unread>>

\* Validate appends an error for each unknown key and joins all there are.
Validate ==
  /\ ~panicked /\ ~Taken("_knownkeys") /\ ~Taken("_errors")
  /\ Len(errs) < MaxErrs
  /\ appendError(SetToSeq({<<"unknown", k>> : k \in UnknownKeys}))
  /\ unread' = unread \cup {k \in Key : obj[k] # Absent /\ \A c \in asked : c[2] # k}
  /\ valid' = IF errs' = <<>> THEN "nil" ELSE "err"
  /\ UNCHANGED <<obj, known, panicked, asked>>

\* jc["_knownkeys"].(map[string]bool), in noteKnownKey and in UnknownKeys.
KnownKeysTaken ==
  /\ ~panicked /\ Taken("_knownkeys")
  /\ panicked' = TRUE
  /\ UNCHANGED <<obj, known, errs, asked, unread, valid>>

\* jc["_errors"].([]error), in appendError and in Validate.
ErrorsTaken ==
  /\ ~panicked /\ Taken("_errors")
  /\ panicked' = TRUE
  /\ UNCHANGED <<obj, known, errs, asked, unread, valid>>

ObjNext ==
  \/ \E a \in DOMAIN Accepts, k \in Key, required \in BOOLEAN : Get(a, k, required)
  \/ Validate \/ KnownKeysTaken \/ ErrorsTaken

ObjSpec == ObjInit /\ [][ObjNext]_objVars

-----------------------------------------------------------------------------
\* Every variable has its type.
ObjTypeOK ==
  /\ known \subseteq Key
  /\ \A i \in 1..Len(errs) :
       \/ errs[i] \in (DOMAIN Accepts) \X Key \X BOOLEAN
       \/ errs[i] \in {"unknown"} \X Key
  /\ panicked \in BOOLEAN
  /\ valid \in {"none", "nil", "err"}

\* The calls that had no value of the right type to return.
Failed ==
  {c \in asked : IF obj[c[2]] = Absent THEN c[3] ELSE obj[c[2]] \notin Accepts[c[1]]}

\* A Validate that returns nil vouches for the whole file: every key of it has
\* been read, each with an accessor for its type, and no required key is missing.
NilMeansClean ==
  valid = "nil" =>
    Failed = {} /\ \A k \in Key : obj[k] = Absent \/ \E c \in asked : c[2] = k

\* Validate reports every failed call and every key it found unread, however
\* often and in whatever order accessors and Validate are called, and invents
\* nothing.
ReportsExactly ==
  ToSet(errs) = Failed \cup {<<"unknown", k>> : k \in unread}

\* "Permit keys with a leading underscore as a form of comments": a file with
\* such a key can be read.
AccessNoPanic == ~panicked

\* Validate reports every failed accessor call and every unread key and nothing
\* else, in whatever order it and the accessors are called; nil vouches for the
\* whole file.
ValidateExact == ObjTypeOK /\ NilMeansClean /\ ReportsExactly
=============================================================================
