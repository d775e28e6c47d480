------------------------------ MODULE KeyStore ------------------------------
(***************************************************************************)
(* The key cache of muse-bridge-go (internal/keys/keys.go, type Store):    *)
(* one API key, minted through the stored identity or taken from a static  *)
(* "direct" key, kept for a TTL and dropped when the upstream rejects it.  *)
(*                                                                         *)
(* Each operation runs under Store.mu.  CurrentKey holds the lock over the *)
(* whole of resolve, a network call, so it is two steps here: the lock is  *)
(* taken (BeginResolve) and given back with the outcome (Mint, UseDirect,  *)
(* ResolveFails).  Everything that does not block is one step.             *)
(*                                                                         *)
(* The module also stands alone: StoreSpec lets any caller use the store in any *)
(* order, provided it only reports keys the upstream refused.  It is the   *)
(* abstract specification that MuseProxy implements.                       *)
(***************************************************************************)
CONSTANTS
  Requests,     \* the goroutines that use the store: one per request
  MintKeys,     \* the keys the mint endpoint can hand out
  DirectKeys,   \* static keys found in the environment or in the Muse app file
  Nobody,       \* owner of a free mutex
  NoKey         \* Go's "": no key cached

ASSUME KeyAssumption ==
  /\ Nobody \notin Requests
  /\ NoKey \notin MintKeys \cup DirectKeys
  /\ MintKeys \cap DirectKeys = {}

Keys == MintKeys \cup DirectKeys

VARIABLES
  mu,           \* Store.mu: the goroutine that holds it across resolve
  key,          \* Store.key
  fresh,        \* time.Since(Store.at) < Store.ttl
  minted,       \* history: the minted keys that reached the store
  aged,         \* history: minted keys whose TTL ran out while cached
  revoked       \* upstream: the keys it answers 401 to

storeVars == <<mu, key, fresh, minted, aged, revoked>>

StoreTypeOK ==
  /\ mu \in Requests \cup {Nobody}
  /\ key \in Keys \cup {NoKey}
  /\ fresh \in BOOLEAN
  /\ minted \subseteq MintKeys
  /\ aged \subseteq MintKeys
  /\ revoked \subseteq Keys

StoreInit ==
  /\ mu = Nobody
  /\ key = NoKey
  /\ fresh = FALSE
  /\ minted = {}
  /\ aged = {}
  /\ revoked = {}

-----------------------------------------------------------------------------
(* CurrentKey.  The lock is free when the call gets it; a fresh key is     *)
(* returned at once, otherwise the lock stays taken while resolve runs.    *)
CachedFresh == key # NoKey /\ fresh

Hit ==
  /\ mu = Nobody
  /\ CachedFresh
  /\ UNCHANGED storeVars

BeginResolve(c) ==
  /\ mu = Nobody
  /\ ~CachedFresh
  /\ mu' = c
  /\ UNCHANGED <<key, fresh, minted, aged, revoked>>

(* What the mint endpoint may hand out: a key it issued before or a new    *)
(* one, never one it has revoked.                                          *)
MintAPIKey == MintKeys \ revoked

(* The direct keys in the environment and the Muse app's file, any of      *)
(* which may come first; they are not looked at for validity.              *)
LoadDirectKeys == DirectKeys

(* The mint endpoint answered with a key.  One revoked between the answer  *)
(* and the assignment behaves as one revoked right after it, because       *)
(* nobody reads the store in between.                                      *)
Mint(c, k) ==
  /\ mu = c
  /\ k \in MintAPIKey
  /\ key' = k
  /\ fresh' = TRUE
  /\ mu' = Nobody
  /\ minted' = minted \cup {k}
  /\ aged' = aged \ {k}
  /\ UNCHANGED revoked

(* No identity, or the mint failed or returned no key: a direct key, which *)
(* may be one the upstream has refused already.                            *)
UseDirect(c, k) ==
  /\ mu = c
  /\ k \in LoadDirectKeys
  /\ key' = k
  /\ fresh' = TRUE
  /\ mu' = Nobody
  /\ UNCHANGED <<minted, aged, revoked>>

(* Faulty variant: the error return forgets the lock.                      *)
ResolveFailsLocked(c) ==
  /\ mu = c
  /\ UNCHANGED storeVars

(* ErrNoCredential: key and at keep what they were.                        *)
ResolveFails(c) ==
  /\ mu = c
  /\ mu' = Nobody
  /\ UNCHANGED <<key, fresh, minted, aged, revoked>>

(* Faulty variant: drops whatever key is cached.                           *)
InvalidateAny(failed) ==
  /\ mu = Nobody
  /\ failed # NoKey
  /\ key' = NoKey
  /\ UNCHANGED <<mu, fresh, minted, aged, revoked>>

(* Invalidate(failedKey): only the key that failed is dropped.             *)
Invalidate(failed) ==
  /\ mu = Nobody
  /\ key' = IF key = failed THEN NoKey ELSE key
  /\ UNCHANGED <<mu, fresh, minted, aged, revoked>>

(* The TTL of the cached key runs out.                                     *)
KeyAges ==
  /\ CachedFresh
  /\ fresh' = FALSE
  /\ aged' = aged \cup ({key} \cap MintKeys)
  /\ UNCHANGED <<mu, key, minted, revoked>>

(* The upstream stops accepting a key.                                     *)
Revoke(k) ==
  /\ revoked' = revoked \cup {k}
  /\ UNCHANGED <<mu, key, fresh, minted, aged>>

-----------------------------------------------------------------------------
CallerStep(c) ==
  \/ Hit
  \/ BeginResolve(c)
  \/ \E k \in MintKeys : Mint(c, k)
  \/ \E k \in DirectKeys : UseDirect(c, k)
  \/ ResolveFails(c)
  \/ \E k \in revoked : Invalidate(k)

StoreNext ==
  \/ \E c \in Requests : CallerStep(c)
  \/ KeyAges
  \/ \E k \in Keys : Revoke(k)

StoreSpec == StoreInit /\ [][StoreNext]_storeVars

-----------------------------------------------------------------------------
(* A key is only minted when the previous ones are of no use any more:     *)
(* every minted key but the cached one was rejected by the upstream or     *)
(* outlived its TTL.  This is what "concurrent requests never mint twice"  *)
(* (keys.go:41) and "concurrent 401s for an already-rotated key must not   *)
(* trigger cascading re-mints" (keys.go:19-21) come to.                    *)
NoNeedlessMint ==
  \A k \in minted : k = key \/ k \in revoked \cup aged

(* The strengthening that makes it inductive: a cached minted key is known *)
(* to the history, and is either within its TTL or recorded as aged; and   *)
(* nobody resolves a key while the cached one is fresh, because the lock   *)
(* is taken before the key is looked at and kept until it is replaced.     *)
CachedKeyKnown ==
  key \in MintKeys => key \in minted /\ (fresh \/ key \in aged)

ResolvingMeansStale ==
  mu # Nobody => ~CachedFresh

StoreInv == StoreTypeOK /\ NoNeedlessMint /\ CachedKeyKnown /\ ResolvingMeansStale
=============================================================================
