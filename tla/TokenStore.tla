----------------------------- MODULE TokenStore -----------------------------
(***************************************************************************)
(* The OAuth token store of agy-bridge-go (internal/auth/auth.go, type     *)
(* TokenStore) with the keychain and file it shares with the agy CLI.      *)
(*                                                                         *)
(* CurrentToken holds TokenStore.mu while it reads the stored credential   *)
(* (a subprocess and a file) and while it refreshes the token over the     *)
(* network: three steps here, Acquire, Load and Refresh*.  The keychain    *)
(* and the file are one place, "disk", because a save writes both and a    *)
(* load reads the first that answers.  A refreshed credential is saved by  *)
(* a goroutine of its own; several may be under way and land in any order. *)
(***************************************************************************)
CONSTANTS
  Requests,     \* the goroutines that use the store
  Tokens,       \* access tokens
  Nobody,       \* owner of a free mutex
  NoToken,      \* AccessToken ""
  NoCred        \* nil

ASSUME TokenAssumption == Nobody \notin Requests /\ NoToken \notin Tokens

VARIABLES
  mu,           \* TokenStore.mu
  phase,        \* where its holder is within CurrentToken
  cred,         \* TokenStore.cred
  rejected,     \* TokenStore.rejected
  disk,         \* the stored credential
  saves,        \* credentials on their way to the disk
  life,         \* "new" (not issued), "good" (> 2 min left), "short", "expired"
  revoked       \* upstream: tokens refused before their expiry

storeVars == <<mu, phase, cred, rejected, disk, saves, life, revoked>>

(* A credential: an access token, blank or not, and whether it comes with  *)
(* a refresh token.                                                        *)
Creds == [tok : Tokens \cup {NoToken}, refresh : BOOLEAN]

StoreTypeOK ==
  /\ mu \in Requests \cup {Nobody}
  /\ phase \in {"free", "load", "refresh"}
  /\ cred \in Creds \cup {NoCred}
  /\ rejected \subseteq Tokens
  /\ disk \in Creds \cup {NoCred}
  /\ saves \subseteq Creds
  /\ life \in [Tokens -> {"new", "good", "short", "expired"}]
  /\ revoked \subseteq Tokens

(* The agy CLI logged in before, or nobody did.                            *)
StoreInit ==
  /\ mu = Nobody /\ phase = "free"
  /\ cred = NoCred
  /\ rejected = {}
  /\ saves = {}
  /\ revoked = {}
  /\ \/ disk = NoCred /\ life = [t \in Tokens |-> "new"]
     \/ \E t \in Tokens, l \in {"good", "expired"}, b \in BOOLEAN :
          /\ disk = [tok |-> t, refresh |-> b]
          /\ life = [u \in Tokens |-> IF u = t THEN l ELSE "new"]

-----------------------------------------------------------------------------
(* A non-blank token that was not rejected and has one of the given lives. *)
Usable(c, lives) ==
  c # NoCred /\ c.tok # NoToken /\ c.tok \notin rejected /\ life[c.tok] \in lives

(* CurrentToken, step 1: the cached token is good.                         *)
Hit ==
  /\ mu = Nobody
  /\ Usable(cred, {"good"})
  /\ UNCHANGED storeVars

Acquire(r) ==
  /\ mu = Nobody
  /\ ~Usable(cred, {"good"})
  /\ mu' = r
  /\ phase' = "load"
  /\ UNCHANGED <<cred, rejected, disk, saves, life, revoked>>

Release == mu' = Nobody /\ phase' = "free"

(* LoadCredential: what the keychain or else the file holds, unless it is  *)
(* unreadable or has no access token.  The two are one place here; the     *)
(* code takes the first of them that has a credential (auth.go:153-193),   *)
(* so that an unreadable keychain yields the file's.                       *)
LoadCredential == disk

(* Step 2: the stored credential replaces the cached one, without its      *)
(* token when that was rejected; when nothing is stored the cached one     *)
(* stays.                                                                  *)
Loaded ==
  IF LoadCredential = NoCred THEN cred
  ELSE IF LoadCredential.tok \in rejected THEN [LoadCredential EXCEPT !.tok = NoToken]
  ELSE LoadCredential

LoadAnswers(r) ==
  /\ mu = r /\ phase = "load"
  /\ Usable(Loaded, {"good"})
  /\ cred' = Loaded
  /\ Release
  /\ UNCHANGED <<rejected, disk, saves, life, revoked>>

(* Faulty variant: the error return forgets the lock.                      *)
LoadFailsLocked(r) ==
  /\ mu = r /\ phase = "load"
  /\ ~Usable(Loaded, {"good"})
  /\ Loaded # NoCred => ~Loaded.refresh
  /\ cred' = Loaded
  /\ UNCHANGED <<mu, phase, rejected, disk, saves, life, revoked>>

(* Nothing is stored, or it has no refresh token: ErrNoCredentials.        *)
LoadFails(r) ==
  /\ mu = r /\ phase = "load"
  /\ ~Usable(Loaded, {"good"})
  /\ Loaded # NoCred => ~Loaded.refresh
  /\ cred' = Loaded
  /\ Release
  /\ UNCHANGED <<rejected, disk, saves, life, revoked>>

LoadNeedsRefresh(r) ==
  /\ mu = r /\ phase = "load"
  /\ ~Usable(Loaded, {"good"})
  /\ Loaded # NoCred /\ Loaded.refresh
  /\ cred' = Loaded
  /\ phase' = "refresh"
  /\ UNCHANGED <<mu, rejected, disk, saves, life, revoked>>

(* RefreshToken: the answer of the OAuth endpoint is a token it never      *)
(* issued before, good for an hour or what it says; the refresh token is   *)
(* kept.                                                                   *)
RefreshToken(t) == [tok |-> t, refresh |-> TRUE]

(* Step 3: the refreshed credential is cached and a goroutine saves it.    *)
Refreshed(r, t) ==
  /\ mu = r /\ phase = "refresh"
  /\ life[t] = "new"
  /\ cred' = RefreshToken(t)
  /\ life' = [life EXCEPT ![t] = "good"]
  /\ saves' = saves \cup {cred'}
  /\ Release
  /\ UNCHANGED <<rejected, disk, revoked>>

(* The refresh failed, but the loaded token still has some life left.      *)
RefreshFallsBack(r) ==
  /\ mu = r /\ phase = "refresh"
  /\ Usable(cred, {"good", "short"})
  /\ Release
  /\ UNCHANGED <<cred, rejected, disk, saves, life, revoked>>

(* Faulty variant: the error return forgets the lock.                      *)
RefreshFailsLocked(r) ==
  /\ mu = r /\ phase = "refresh"
  /\ ~Usable(cred, {"good", "short"})
  /\ UNCHANGED storeVars

RefreshFails(r) ==
  /\ mu = r /\ phase = "refresh"
  /\ ~Usable(cred, {"good", "short"})
  /\ Release
  /\ UNCHANGED <<cred, rejected, disk, saves, life, revoked>>

(* Faulty variant: only the cached copy is dropped.                        *)
InvalidateForgetting(t) ==
  /\ mu = Nobody
  /\ cred' = IF cred # NoCred /\ cred.tok = t THEN [cred EXCEPT !.tok = NoToken] ELSE cred
  /\ UNCHANGED <<mu, phase, rejected, disk, saves, life, revoked>>

(* Invalidate(failedToken) also remembers the token: the disk may hold it. *)
Invalidate(t) ==
  /\ mu = Nobody
  /\ rejected' = rejected \cup {t}
  /\ cred' = IF cred # NoCred /\ cred.tok = t THEN [cred EXCEPT !.tok = NoToken] ELSE cred
  /\ UNCHANGED <<mu, phase, disk, saves, life, revoked>>

-----------------------------------------------------------------------------
(* SaveCredential, whose failure nobody sees.  A keychain or file that     *)
(* holds a blank token counts as empty, but a refreshed one never is.      *)
SaveLands(c) ==
  /\ c \in saves
  /\ saves' = saves \ {c}
  /\ disk' = c
  /\ UNCHANGED <<mu, phase, cred, rejected, life, revoked>>

SaveLost(c) ==
  /\ c \in saves
  /\ saves' = saves \ {c}
  /\ UNCHANGED <<mu, phase, cred, rejected, disk, life, revoked>>

(* The agy CLI logs in or refreshes on its own.                            *)
CliLogin(t) ==
  /\ life[t] = "new"
  /\ life' = [life EXCEPT ![t] = "good"]
  /\ disk' = [tok |-> t, refresh |-> TRUE]
  /\ UNCHANGED <<mu, phase, cred, rejected, saves, revoked>>

Age(t) ==
  /\ \/ life[t] = "good" /\ life' = [life EXCEPT ![t] = "short"]
     \/ life[t] = "short" /\ life' = [life EXCEPT ![t] = "expired"]
  /\ UNCHANGED <<mu, phase, cred, rejected, disk, saves, revoked>>

Revoke(t) ==
  /\ life[t] \in {"good", "short"}
  /\ revoked' = revoked \cup {t}
  /\ UNCHANGED <<mu, phase, cred, rejected, disk, saves, life>>

Environment ==
  \/ \E c \in saves : SaveLands(c) \/ SaveLost(c)
  \/ \E t \in Tokens : CliLogin(t) \/ Age(t) \/ Revoke(t)
=============================================================================
