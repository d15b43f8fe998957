-------------------------------- MODULE Unlock --------------------------------
(***************************************************************************)
(* How a page gets the private keys of the account (unlock of              *)
(* web/js/app.js, upgradeIdentityEnvelope of crypto.js, the identity part  *)
(* of device-vault.js).  An account of the first format has no signing     *)
(* key: the first window that is given the phrase makes one and registers  *)
(* it, and other windows and devices may be doing the same.  A window may  *)
(* leave the keys in the vault of its browser, sealed under a device key   *)
(* that the first window to need one creates.                              *)
(*                                                                         *)
(* What the page then believes of its own identity is IdentityTrust's.     *)
(***************************************************************************)
EXTENDS Naturals, FiniteSets

CONSTANTS
    Windows,    \* windows of the account
    BrowserOf,  \* the browser of each window
    MaxMade,    \* bound: keys generated, signing keys and device keys
    MaxReturns, \* bound: pages reloaded, users signed in again, keys forgotten
    MaxDenials  \* bound: requests and vault operations that fail

UnlockBounds == {MaxMade, MaxReturns, MaxDenials} \subseteq Nat

VARIABLES
    account,    \* users.signing_key_id at the server, Unsigned in the first format
    vault,      \* of each browser: its device key, the identity it remembers
    unlocking,  \* what each window is doing, and with which keys
    store,      \* what the sessionStorage of each window holds
    made,       \* keys generated so far: their names
    spent       \* denials and returns so far

unlockVars == <<account, vault, unlocking, store, made, spent>>

Unsigned == 0
NotKept == [seal |-> Unsigned, key |-> Unsigned]
Locked == [step |-> "load", me |-> Unsigned, key |-> Unsigned, device |-> Unsigned,
           held |-> NotKept, remember |-> FALSE, typed |-> FALSE]
Browsers == {BrowserOf[w] : w \in Windows}
Vault(w) == vault[BrowserOf[w]]
AtStep(w, steps) == unlocking[w].step \in steps
Becomes(w, r) == unlocking' = [unlocking EXCEPT ![w] = r]
Steps(w, step) == Becomes(w, [unlocking[w] EXCEPT !.step = step])
Remembers(w, identity) == vault' = [vault EXCEPT ![BrowserOf[w]].identity = identity]
Stores(w, phrase, remember) ==
    store' = [store EXCEPT ![w].phrase = phrase, ![w].remember = remember]
Generate == made < MaxMade /\ made' = made + 1
Denied == spent.denials < MaxDenials /\ spent' = [spent EXCEPT !.denials = @ + 1]

-----------------------------------------------------------------------------
(* boot has the account; a remembered identity is tried first, unless the *)
(* phrase has to be verified, then the phrase of this window, then the user. *)
AfterVault(w) == IF store[w].phrase /\ ~store[w].forced THEN "saved" ELSE "dialog"

Boot(w) ==
    /\ AtStep(w, {"load"})
    /\ Becomes(w, [Locked EXCEPT !.me = account,
           !.step = IF ~store[w].forced /\ account # Unsigned THEN "look" ELSE AfterVault(w)])
    /\ UNCHANGED <<account, vault, store, made, spent>>

(* loadRememberedIdentity: only an identity of the account as it is now. *)
Look(w) ==
    /\ AtStep(w, {"look"})
    /\ LET saved == Vault(w).identity IN
         IF saved # NotKept /\ saved.key = unlocking[w].me
           THEN Becomes(w, [unlocking[w] EXCEPT !.step = "unseal", !.held = saved])
           ELSE Steps(w, AfterVault(w))
    /\ UNCHANGED <<account, vault, store, made, spent>>

(* deviceKey: the key of the browser, read, or generated and then written. *)
ReadDeviceKey(w) ==
    /\ AtStep(w, {"unseal", "seal"}) /\ unlocking[w].device = Unsigned
    /\ Vault(w).device # Unsigned
    /\ Becomes(w, [unlocking[w] EXCEPT !.device = Vault(w).device])
    /\ UNCHANGED <<account, vault, store, made, spent>>

MakeDeviceKey(w) ==
    /\ AtStep(w, {"unseal", "seal"}) /\ unlocking[w].device = Unsigned
    /\ Vault(w).device = Unsigned
    /\ Generate
    /\ Becomes(w, [unlocking[w] EXCEPT !.device = made',
           !.step = IF @ = "seal" THEN "write and seal" ELSE "write and unseal"])
    /\ UNCHANGED <<account, vault, store, spent>>

WriteDeviceKey(w) ==
    /\ AtStep(w, {"write and seal", "write and unseal"})
    /\ vault' = [vault EXCEPT ![BrowserOf[w]].device = unlocking[w].device]
    /\ Steps(w, IF AtStep(w, {"write and seal"}) THEN "seal" ELSE "unseal")
    /\ UNCHANGED <<account, store, made, spent>>

(* The record opens, or is deleted and the phrase is asked for. *)
Unseal(w) ==
    /\ AtStep(w, {"unseal"}) /\ unlocking[w].device # Unsigned
    /\ unlocking[w].held.seal = unlocking[w].device
    /\ Becomes(w, [unlocking[w] EXCEPT !.step = "open", !.key = unlocking[w].held.key])
    /\ Stores(w, FALSE, FALSE)
    /\ UNCHANGED <<account, vault, made, spent>>

BrokenSeal(w) ==
    /\ AtStep(w, {"unseal"}) /\ unlocking[w].device # Unsigned
    /\ unlocking[w].held.seal # unlocking[w].device
    /\ Remembers(w, NotKept)
    /\ Becomes(w, [unlocking[w] EXCEPT !.step = AfterVault(w), !.device = Unsigned])
    /\ UNCHANGED <<account, store, made, spent>>

-----------------------------------------------------------------------------
(* An attempt: the phrase opens the envelope the page has; one of the first *)
(* format gets a new signing key, to be registered. *)
UpgradeIdentityEnvelope(w, tried) ==
    IF unlocking[w].me # Unsigned
      THEN /\ Becomes(w, [tried EXCEPT !.step = "keep", !.key = unlocking[w].me])
           /\ UNCHANGED made
      ELSE /\ Generate
           /\ Becomes(w, [tried EXCEPT !.step = "register", !.key = made'])

AttemptSaved(w) ==
    /\ AtStep(w, {"saved"})
    /\ UpgradeIdentityEnvelope(w,
           [unlocking[w] EXCEPT !.remember = store[w].remember, !.typed = FALSE])
    /\ UNCHANGED <<account, vault, store, spent>>

AttemptTyped(w, remember) ==
    /\ AtStep(w, {"dialog"}) /\ (store[w].forced => remember)
    /\ UpgradeIdentityEnvelope(w,
           [unlocking[w] EXCEPT !.remember = remember, !.typed = TRUE])
    /\ UNCHANGED <<account, vault, store, spent>>

(* The attempt throws: a saved phrase is forgotten and the user is asked, who *)
(* was typing stays where the error is shown. *)
GivesIn(w) ==
    /\ Steps(w, "dialog")
    /\ IF unlocking[w].typed THEN UNCHANGED store ELSE Stores(w, FALSE, FALSE)

(* decryptIdentityBundle: the phrase of the window does not open the envelope *)
(* (one typed wrong changes nothing). *)
WrongPhrase(w) ==
    /\ AtStep(w, {"saved"})
    /\ Steps(w, "dialog") /\ Stores(w, FALSE, FALSE)
    /\ UNCHANGED <<account, vault, made, spent>>

(* PUT /api/me/identity: the server takes the first signing key only. *)
Registered(w) == IF account = Unsigned THEN unlocking[w].key ELSE account

RegisterKey(w) ==
    /\ AtStep(w, {"register"})
    /\ account' = Registered(w)
    /\ IF account' = unlocking[w].key
         THEN Becomes(w, [unlocking[w] EXCEPT !.step = "trust", !.me = account'])
         ELSE Steps(w, "reload")
    /\ UNCHANGED <<vault, store, made, spent>>

(* The request or its answer is lost. *)
RegisterKeyFails(w, arrived) ==
    /\ AtStep(w, {"register"}) /\ Denied
    /\ account' = IF arrived THEN Registered(w) ELSE account
    /\ Steps(w, "reload")
    /\ UNCHANGED <<vault, store, made>>

(* Another device may have registered its key first: its envelope is read. *)
ItsOwn(w) == unlocking[w].key       \* mutant: the page keeps the key it made
Migrated(w) == account

ReadAgain(w) ==
    /\ AtStep(w, {"reload"}) /\ account # Unsigned
    /\ Becomes(w, [unlocking[w] EXCEPT !.step = "trust", !.me = account, !.key = Migrated(w)])
    /\ UNCHANGED <<account, vault, store, made, spent>>

NothingRead(w) ==
    /\ AtStep(w, {"reload"}) /\ account = Unsigned
    /\ GivesIn(w)
    /\ UNCHANGED <<account, vault, made, spent>>

ReadAgainFails(w) ==
    /\ AtStep(w, {"reload"}) /\ Denied
    /\ GivesIn(w)
    /\ UNCHANGED <<account, vault, made>>

(* The page observes the signing key its own account just got (IdentityTrust). *)
ObserveItself(w) ==
    /\ AtStep(w, {"trust"})
    /\ Steps(w, "keep")
    /\ UNCHANGED <<account, vault, store, made, spent>>

(* The end of an attempt; a verification that was due is then counted. *)
Unlocked(w) == IF unlocking[w].typed /\ store[w].forced THEN "count" ELSE "open"

KeepPhrase(w) ==
    /\ AtStep(w, {"keep"}) /\ ~unlocking[w].remember
    /\ Steps(w, Unlocked(w)) /\ Stores(w, TRUE, FALSE)
    /\ UNCHANGED <<account, vault, made, spent>>

RememberIdentity(w) ==
    /\ AtStep(w, {"keep"}) /\ unlocking[w].remember
    /\ Becomes(w, [unlocking[w] EXCEPT !.step = "seal", !.device = Unsigned])
    /\ UNCHANGED <<account, vault, store, made, spent>>

Seal(w) ==
    /\ AtStep(w, {"seal"}) /\ unlocking[w].device # Unsigned
    /\ Remembers(w, [seal |-> unlocking[w].device, key |-> unlocking[w].me])
    /\ Steps(w, Unlocked(w)) /\ Stores(w, FALSE, FALSE)
    /\ UNCHANGED <<account, made, spent>>

ResetCounter(w) ==
    /\ AtStep(w, {"count"})
    /\ Steps(w, "open") /\ store' = [store EXCEPT ![w].forced = FALSE]
    /\ UNCHANGED <<account, vault, made, spent>>

-----------------------------------------------------------------------------
(* The vault of the browser refuses a read or a write, or the trust database *)
(* does; a record that could not be opened may be deleted all the same. *)
VaultFails(w) ==
    /\ Denied
    /\ \/ AtStep(w, {"look"}) /\ Steps(w, AfterVault(w)) /\ UNCHANGED <<vault, store>>
       \/ /\ AtStep(w, {"unseal", "write and unseal"})
          /\ Remembers(w, NotKept) \/ UNCHANGED vault
          /\ Becomes(w, [unlocking[w] EXCEPT !.step = AfterVault(w), !.device = Unsigned])
          /\ UNCHANGED store
       \/ AtStep(w, {"trust", "seal", "write and seal"}) /\ GivesIn(w) /\ UNCHANGED vault
       \/ AtStep(w, {"count"}) /\ Steps(w, "dialog") /\ UNCHANGED <<vault, store>>
    /\ UNCHANGED <<account, made>>

Returns == spent.returns < MaxReturns /\ spent' = [spent EXCEPT !.returns = @ + 1]

RefreshPage(w) ==                       \* the user reloads the page
    /\ ~AtStep(w, {"load"}) /\ Returns
    /\ Becomes(w, Locked)
    /\ UNCHANGED <<account, vault, store, made>>

SignInAgain(w, forced) ==           \* finishSuccessfulLogin, on the way to the page
    /\ Returns
    /\ Becomes(w, Locked)
    /\ store' = [store EXCEPT ![w] = [phrase |-> FALSE, remember |-> FALSE, forced |-> forced]]
    /\ UNCHANGED <<account, vault, made>>

ForgetIdentity(w) ==                \* forgetRememberedIdentity, in the profile
    /\ AtStep(w, {"open"}) /\ Returns
    /\ Remembers(w, NotKept)
    /\ UNCHANGED <<account, unlocking, store, made>>

(* Registration leaves a phrase to be remembered, a sign-in may ask for it. *)
UnlockInit ==
    /\ account \in {Unsigned, 1} /\ made = account
    /\ vault = [b \in Browsers |-> [device |-> Unsigned, identity |-> NotKept]]
    /\ unlocking = [w \in Windows |-> Locked]
    /\ store \in [Windows -> [phrase : BOOLEAN, remember : BOOLEAN, forced : BOOLEAN]]
    /\ \A w \in Windows : /\ store[w].remember => store[w].phrase /\ account # Unsigned
                          /\ store[w].forced => ~store[w].phrase
    /\ spent = [denials |-> 0, returns |-> 0]

UnlockNext == \E w \in Windows :
    \/ Boot(w) \/ Look(w) \/ ReadDeviceKey(w) \/ MakeDeviceKey(w) \/ WriteDeviceKey(w)
    \/ Unseal(w) \/ BrokenSeal(w) \/ AttemptSaved(w) \/ WrongPhrase(w) \/ RegisterKey(w)
    \/ ReadAgain(w) \/ NothingRead(w) \/ ReadAgainFails(w) \/ ObserveItself(w)
    \/ KeepPhrase(w) \/ RememberIdentity(w) \/ Seal(w) \/ ResetCounter(w) \/ VaultFails(w)
    \/ RefreshPage(w) \/ ForgetIdentity(w)
    \/ \E b \in BOOLEAN : AttemptTyped(w, b) \/ RegisterKeyFails(w, b) \/ SignInAgain(w, b)

UnlockSpec == UnlockInit /\ [][UnlockNext]_unlockVars

-----------------------------------------------------------------------------
StepNames ==
    {"load", "look", "unseal", "write and unseal", "saved", "dialog", "register", "reload",
     "trust", "keep", "seal", "write and seal", "count", "open"}
KeptIdentities == [seal : 0..made, key : 0..made]

UnlockTypeOK ==
    /\ made \in Nat /\ account \in 0..made
    /\ vault \in [Browsers -> [device : 0..made, identity : KeptIdentities]]
    /\ unlocking \in [Windows -> [step : StepNames, me : 0..made, key : 0..made,
                                  device : 0..made, held : KeptIdentities,
                                  remember : BOOLEAN, typed : BOOLEAN]]
    /\ store \in [Windows -> [phrase : BOOLEAN, remember : BOOLEAN, forced : BOOLEAN]]
    /\ spent \in [denials : Nat, returns : Nat]

(* Whichever windows migrate the account at once, whatever is lost on the way: *)
(* a window that is unlocked signs with the key the account registered, and so *)
(* does the identity a browser remembers (app.js 975-1014).  A phrase that has *)
(* to be typed again is not kept by a window.                                  *)
OneSigningIdentity ==
    /\ \A w \in Windows : /\ AtStep(w, {"open"}) => unlocking[w].key = account
                          /\ store[w].forced => ~store[w].phrase
    /\ \A b \in Browsers : vault[b].identity # NotKept => vault[b].identity.key = account

-----------------------------------------------------------------------------
(* Why: a window past the registration has the account's key, one before it   *)
(* the account as it read it, and none is registered twice.                   *)
SignsAsTheAccount ==
    /\ \A b \in Browsers : vault[b].identity # NotKept => account # Unsigned
    /\ \A w \in Windows :
         /\ unlocking[w].me \in {Unsigned, account}
         /\ AtStep(w, {"register"}) => unlocking[w].key # Unsigned
         /\ AtStep(w, {"unseal", "write and unseal"}) =>
              unlocking[w].held.key = account
         /\ AtStep(w, {"trust", "keep", "seal", "write and seal", "count", "open"}) =>
              unlocking[w].key = account
         /\ AtStep(w, {"look", "unseal", "write and unseal", "trust", "keep", "seal",
                       "write and seal", "count", "open"}) =>
              account # Unsigned /\ unlocking[w].me = account
         /\ store[w].forced =>
              /\ ~AtStep(w, {"look", "saved"})
              /\ AtStep(w, {"register", "reload", "trust", "keep"}) =>
                   unlocking[w].typed /\ unlocking[w].remember
=============================================================================
