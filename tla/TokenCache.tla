----------------------------- MODULE TokenCache -----------------------------
(***************************************************************************)
(* oauthutil.TokenSource over wkfs: processes that call Token with one     *)
(* CacheFile, on the operating system's file system or on /gcs/. They read *)
(* and write it with no lock, may die at any step, and their tokens expire.*)
(*                                                                         *)
(* A token's JSON is a sequence of cells that name it; the last one closes *)
(* the object. Unmarshal takes any cells of which only the last one does,  *)
(* so parts of two tokens may pass. os, Cloud Storage and oauth2 are       *)
(* external: a write to a file overwrites from offset 0, an object is      *)
(* replaced when its writer is closed.                                     *)
(***************************************************************************)
EXTENDS Integers, SequencesExt

CONSTANTS
  Client,      \* processes
  MaxIssued,   \* bound on the tokens that are issued
  MaxSize      \* maxSize of package gcs

VARIABLES
  fsys,      \* what fs(CacheFile) is: "os", "gcs", or a "broken" gcsFS
  file,      \* <<>>, or <<the cells of CacheFile>>
  issued,    \* how many tokens were issued; they are 1..issued
  expired,   \* those that have expired
  cl,        \* where each process is in Token, and its variables
  shared,    \* history: those whose last use of the file met another's write
  torn       \* history: one of them wrote too little, since the last truncation

cacheVars == <<fsys, file, issued, expired, cl, shared, torn>>
histVars == <<shared, torn>>

NoToken == 0
Cell(t, last) == [tok |-> t, last |-> last]
Cells(n) == 1 + (n % 2)

\* json.Marshal of token t: some tokens are longer than others.
Marshal(t) == Append([k \in 1..Cells(t) |-> Cell(t, FALSE)], Cell(t, TRUE))

\* What json.Unmarshal accepts, and the expiry it then takes.
Unmarshals(data) ==
  data # <<>> /\ \A k \in DOMAIN data : data[k].last <=> k = Len(data)
tokenOf(data) == Last(data).tok

Idle(ret) ==
  [at |-> "idle", data |-> <<>>, size |-> 0, new |-> NoToken, err |-> FALSE, ret |-> ret]

Init ==
  /\ fsys \in {"os", "gcs", "broken"}
  /\ file = <<>> /\ issued = 0 /\ expired = {}
  /\ cl = [c \in Client |-> Idle(<<>>)]
  /\ shared = {} /\ torn = FALSE

Writing(c) == cl[c].at \in {"write", "close"}
Reading(c) == cl[c].at \in {"reader", "read"}

\* History: c begins to use the file while others write it.
Begins(c) ==
  shared' = IF \E d \in Client \ {c} : Writing(d) THEN shared \cup {c} ELSE shared \ {c}
\* History: c begins to write while others use it.
BeginsToWrite(c) ==
  LET others == {d \in Client \ {c} : Writing(d) \/ Reading(d)}
  IN shared' = IF \E d \in others : Writing(d) THEN shared \cup others \cup {c}
               ELSE (shared \cup others) \ {c}

Return(c, data) == cl' = [cl EXCEPT ![c] = Idle(data)]

-----------------------------------------------------------------------------
(* Slips the properties below must catch; no specification uses them.      *)

\* WriteFile opens the file without O_TRUNC.
CreateKeeps(c) ==
  /\ cl[c].at = "create"
  /\ fsys # "broken"
  /\ cl' = [cl EXCEPT ![c].at = "write"]
  /\ IF fsys = "os" THEN file' = (IF file = <<>> THEN <<<<>>>> ELSE file) /\ torn' = FALSE
     ELSE UNCHANGED <<file, torn>>
  /\ BeginsToWrite(c)
  /\ UNCHANGED <<fsys, issued, expired>>

-----------------------------------------------------------------------------
\* tok.Valid()
Valid(data) == tokenOf(data) \notin expired

\* The rest of cachedToken, with what was read, and what Token makes of it.
CachedToken(c, data) ==
  IF Unmarshals(data) /\ Valid(data) THEN Return(c, data)
  ELSE cl' = [cl EXCEPT ![c].at = "ask", ![c].data = <<>>]

\* Token is called and wkfs.Open opens CacheFile; gcsFS.Open gets the object's
\* size first.
Open(c) ==
  /\ cl[c].at = "idle"
  /\ \/ /\ fsys # "broken" /\ file # <<>>
        /\ fsys = "gcs" => Len(file[1]) <= MaxSize
        /\ cl' = [cl EXCEPT ![c] = [Idle(<<>>) EXCEPT
             !.at = IF fsys = "gcs" THEN "reader" ELSE "read", !.size = Len(file[1])]]
        /\ Begins(c)
     \/ cl' = [cl EXCEPT ![c] = [Idle(<<>>) EXCEPT !.at = "ask"]] /\ UNCHANGED shared
  /\ UNCHANGED <<fsys, file, issued, expired, torn>>

\* gcsFS.Open: NewReader, and ReadAll of at most size bytes of the object as it
\* is now.
GcsRead(c) ==
  /\ cl[c].at = "reader"
  /\ CachedToken(c, SubSeq(file[1], 1, Min({cl[c].size, Len(file[1])})))
  /\ UNCHANGED <<fsys, file, issued, expired, histVars>>

\* ReadFile's ReadAll: one more read of the open file, from where the last ended.
OsRead(c) ==
  /\ cl[c].at = "read"
  /\ LET off == Len(cl[c].data) IN
     IF off >= Len(file[1]) THEN CachedToken(c, cl[c].data)
     ELSE \E to \in (off + 1)..Len(file[1]) :
            cl' = [cl EXCEPT ![c].data = @ \o SubSeq(file[1], off + 1, to)]
  /\ UNCHANGED <<fsys, file, issued, expired, histVars>>

\* NewReader fails, or a read does.
ReadFails(c) ==
  /\ Reading(c)
  /\ cl' = [cl EXCEPT ![c].at = "ask", ![c].data = <<>>]
  /\ UNCHANGED <<fsys, file, issued, expired, histVars>>

\* Config.Exchange of what AuthCode returns.
Exchange(c) ==
  /\ cl[c].at = "ask"
  /\ issued < MaxIssued
  /\ issued' = issued + 1
  /\ cl' = [cl EXCEPT ![c].at = "create", ![c].new = issued + 1]
  /\ UNCHANGED <<fsys, file, expired, histVars>>

\* ErrNoAuthCode, or Exchange fails.
ExchangeFails(c) ==
  /\ cl[c].at = "ask"
  /\ Return(c, <<>>)
  /\ UNCHANGED <<fsys, file, issued, expired, histVars>>

\* wkfs.WriteFile opens the file, and on os truncates it.
Create(c) ==
  /\ cl[c].at = "create"
  /\ fsys # "broken"
  /\ cl' = [cl EXCEPT ![c].at = "write"]
  /\ IF fsys = "os" THEN file' = <<<<>>>> /\ torn' = FALSE ELSE UNCHANGED <<file, torn>>
  /\ BeginsToWrite(c)
  /\ UNCHANGED <<fsys, issued, expired>>

CreateFails(c) ==
  /\ cl[c].at = "create"
  /\ Return(c, <<>>)
  /\ UNCHANGED <<fsys, file, issued, expired, histVars>>

\* File f with p written at its start.
Overwrite(f, p) == p \o SubSeq(f, Len(p) + 1, Len(f))

\* f.Write(data): a short one comes with an error. An object is not written yet.
Write(c) ==
  /\ cl[c].at = "write"
  /\ LET all == Marshal(cl[c].new) IN
     \E n \in 0..Len(all) :
       /\ cl' = [cl EXCEPT ![c].at = "close", ![c].err = n < Len(all)]
       /\ IF fsys = "os" THEN file' = <<Overwrite(file[1], SubSeq(all, 1, n))>> ELSE UNCHANGED file
       /\ torn' = (torn \/ (fsys = "os" /\ n < Len(all) /\ c \in shared))
  /\ UNCHANGED <<fsys, issued, expired, shared>>

\* f.Close, which replaces an object that was written in full; the first error
\* is WriteFile's and makes Token fail.
Close(c) ==
  /\ cl[c].at = "close"
  /\ \/ /\ ~cl[c].err
        /\ Return(c, Marshal(cl[c].new))
        /\ IF fsys = "gcs" THEN file' = <<Marshal(cl[c].new)>> ELSE UNCHANGED file
     \/ Return(c, <<>>) /\ UNCHANGED file
  /\ UNCHANGED <<fsys, issued, expired, histVars>>

\* The process dies, whatever it was about to do, and another one is started.
Die(c) ==
  /\ cl[c].at # "idle"
  /\ Return(c, <<>>)
  /\ UNCHANGED <<fsys, file, issued, expired, histVars>>

Expire(t) ==
  /\ t \in (1..issued) \ expired
  /\ expired' = expired \cup {t}
  /\ UNCHANGED <<fsys, file, issued, cl, histVars>>

Next ==
  \/ \E c \in Client :
       \/ Open(c) \/ GcsRead(c) \/ ReadFails(c) \/ OsRead(c)
       \/ Exchange(c) \/ ExchangeFails(c)
       \/ Create(c) \/ CreateFails(c) \/ Write(c) \/ Close(c) \/ Die(c)
  \/ \E t \in 1..MaxIssued : Expire(t)

-----------------------------------------------------------------------------
\* A step returns a token to c from the cache, or a new one.
FromCache(c) == Reading(c) /\ cl'[c].at = "idle" /\ cl'[c].ret # <<>>
New(c) == cl[c].at = "close" /\ cl'[c].ret # <<>>

\* Whatever the others do, a Token that comes from CacheFile has not expired,
\* and it is one that was issued, never made of two: on /gcs/ always, although
\* the object may be replaced between the question for its size and the read;
\* in a file unless the read met a write, or one of two writes that met was cut
\* short. A new token is then in CacheFile, as a whole, whatever was there.
TokensSound ==
  \A c \in Client :
    /\ FromCache(c) => tokenOf(cl'[c].ret) \notin expired
    /\ FromCache(c) /\ (fsys = "gcs" \/ (c \notin shared /\ ~torn)) =>
         \E t \in 1..issued : cl'[c].ret = Marshal(t)
    /\ New(c) /\ c \notin shared => file' = <<Marshal(cl[c].new)>>
=============================================================================
