---------------------------- MODULE WalletSession ----------------------------
(***************************************************************************)
(* The wallet session of the web client: what the Artemis adapter, the     *)
(* connection helpers, the application store, the browser's localStorage   *)
(* and the header component each remember of the connected user, and how   *)
(* connecting, disconnecting, restoring a session when the page loads and  *)
(* calling a canister through the adapter's cache of actors interleave.    *)
(*                                                                         *)
(* A wallet is an extension of the browser (Plug, Bitfinity), a wallet of  *)
(* the web (Internet Identity, NFID, Stoic, AstroX, MSQ), or one that is   *)
(* not installed (readyState 'NotDetected').  JavaScript runs one task at  *)
(* a time: a step of the model is the code between two awaits that really  *)
(* wait; what only waits for a resolved promise belongs to the same step.  *)
(***************************************************************************)
CONSTANTS
  Users,       \* the principals a wallet can log in
  Wallets,     \* walletList
  Extensions,  \* the wallets that disconnect_force disconnects
  Missing,     \* the wallets whose readyState is 'NotDetected'
  Canisters,   \* the canisters the pages call
  Tasks,       \* the asynchronous operations the header may have in flight
  None         \* '', false, undefined, or an absent key of localStorage

ASSUME WalletsAssumption == Extensions \subseteq Wallets /\ Missing \subseteq Wallets
ASSUME NoneAssumption == None \notin Users \cup Wallets

VARIABLES
  adapter,   \* artemisWalletAdapter: principalId, provider, canisterActors
  storage,   \* localStorage
  store,     \* appStore
  modal,     \* OpenSelectWell of App.tsx and openCreateWallet of the header
  task,      \* the operations in flight
  creating,  \* actors being created by the provider, one per call that missed
  session,   \* whom each wallet itself holds logged in (external)
  leaving,   \* wallets told to log out that have not done so yet
  granted,   \* history: the last user a wallet granted in this page, and that wallet
  stored,    \* history: the principal localStorage held when the page was loaded
  last       \* history: the last call, by whom it was made and signed

vars == <<adapter, storage, store, modal, task, creating, session, leaving, granted, stored, last>>

MaybeUser == Users \cup {None}
MaybeWallet == Wallets \cup {None}

Idle == [pc |-> "idle", wallet |-> None, restores |-> None]
Actor == [canister : Canisters, signer : Users, user : Users]

TypeOK ==
  /\ adapter \in [principalId : MaybeUser, provider : MaybeWallet, canisterActors : [Canisters -> MaybeUser]]
  /\ storage \in [principalId : MaybeUser, walletType : MaybeWallet,
                  userId : MaybeUser, dfinityWallet : MaybeWallet]
  /\ store \in [userId : MaybeUser, connectType : MaybeWallet, accountId : MaybeUser]
  /\ modal \in [openSelectWell : BOOLEAN, openCreateWallet : BOOLEAN]
  /\ task \in [Tasks -> [pc : {"idle", "decimals", "asking", "login", "forcing"},
                         wallet : MaybeWallet, restores : MaybeUser]]
  /\ creating \in SUBSET Actor
  /\ session \in [Wallets -> MaybeUser]
  /\ leaving \in SUBSET Wallets
  /\ granted \in [user : MaybeUser, wallet : MaybeWallet]
  /\ stored \in MaybeUser
  /\ last \in [signer : MaybeUser, user : MaybeUser]

----------------------------------------------------------------------------
(* What the page starts with, the first time and after each reload.        *)

FreshAdapter == [principalId |-> None, provider |-> None, canisterActors |-> [c \in Canisters |-> None]]
FreshStore == [userId |-> None, connectType |-> None, accountId |-> None]
Cleared == [principalId |-> None, walletType |-> None, userId |-> None, dfinityWallet |-> None]
ClosedModals == [openSelectWell |-> FALSE, openCreateWallet |-> FALSE]
NoCall == [signer |-> None, user |-> None]
NoGrant == [user |-> None, wallet |-> None]

Init ==
  /\ adapter = FreshAdapter
  /\ storage = Cleared
  /\ store = FreshStore
  /\ modal = ClosedModals
  /\ task = [t \in Tasks |-> Idle]
  /\ creating = {}
  /\ session = [w \in Wallets |-> None]
  /\ leaving = {}
  /\ granted = NoGrant
  /\ stored = None
  /\ last = NoCall

\* The page is loaded again: what is in memory is lost, localStorage and the
\* wallets are not; meanwhile a session of a wallet may have expired or, in
\* another tab, changed hands.  The header's first effect starts
\* verifyConnectionAndAgent: it reads localStorage, and waits for a call of
\* the ICP ledger when a principal is there; otherwise its `finally` runs.
Reload(t) ==
  /\ adapter' = FreshAdapter
  /\ store' = FreshStore
  /\ modal' = ClosedModals
  /\ creating' = {}
  /\ granted' = NoGrant
  /\ stored' = storage.principalId
  /\ last' = NoCall
  /\ \E w \in Wallets, u \in MaybeUser : session' = [session EXCEPT ![w] = u]
  /\ IF storage.principalId # None
     THEN /\ task' = [[s \in Tasks |-> Idle] EXCEPT
                        ![t] = [pc |-> "decimals", wallet |-> storage.walletType,
                                restores |-> storage.principalId]]
          /\ UNCHANGED storage
     ELSE /\ task' = [s \in Tasks |-> Idle]
          /\ storage' = [storage EXCEPT !.userId = None]
  /\ UNCHANGED leaving

----------------------------------------------------------------------------
(* The modal that chooses a wallet.                                        *)

\* The header's button connects, or opens the popover of the connected user.
Header == IF store.userId = None THEN "Connect Wallet" ELSE "user"
UserModal == Header = "user"
SelectWalletModal == modal.openCreateWallet

\* handleOpenWallet: the header's own button, shown while nobody is connected.
HandleOpenWallet ==
  /\ Header = "Connect Wallet"
  /\ modal' = [modal EXCEPT !.openCreateWallet = TRUE]
  /\ UNCHANGED <<adapter, storage, store, task, creating, session, leaving, granted, stored, last>>

\* A page finds no user and calls onWellModal(true).  The modal opens by an
\* effect on openSelectWell, which runs only when that value changes.
OnWellModal ==
  /\ store.userId = None
  /\ modal' = [openSelectWell |-> TRUE,
               openCreateWallet |-> modal.openCreateWallet \/ ~modal.openSelectWell]
  /\ UNCHANGED <<adapter, storage, store, task, creating, session, leaving, granted, stored, last>>

\* A wrong variant, to be refuted: only the header's own flag is reset.
CloseLocally ==
  /\ modal.openCreateWallet
  /\ modal' = [modal EXCEPT !.openCreateWallet = FALSE]
  /\ UNCHANGED <<adapter, storage, store, task, creating, session, leaving, granted, stored, last>>

HandleCloseWallet ==
  /\ SelectWalletModal
  /\ modal' = ClosedModals
  /\ UNCHANGED <<adapter, storage, store, task, creating, session, leaving, granted, stored, last>>

\* editOpenSelectWell(false): the effect on openSelectWell closes the modal
\* only if that value was true.
EditClosed(m) ==
  [openSelectWell |-> FALSE, openCreateWallet |-> m.openCreateWallet /\ ~m.openSelectWell]

----------------------------------------------------------------------------
(* Connecting: BtnSelectWallet, or verifyConnectionAndAgent, calls         *)
(* requestConnect, which calls the adapter's connect.                      *)

\* A wrong variant, to be refuted: requestConnect leaves the account alone.
WithoutAccount(p, w) ==
  IF p = None THEN store
  ELSE [store EXCEPT !.userId = p, !.connectType = w]

\* requestConnect once the adapter answered p: setAppConnect,
\* setAppConnectType and setAccountId, each only for a principal.
Connected(p, w) ==
  IF p = None THEN store
  ELSE [userId |-> p, connectType |-> w, accountId |-> p]

\* A wrong variant, to be refuted: requestConnect forgets STORE_WALLETTYPE.
RememberedWithoutType(p, w, restores) ==
  IF p = None THEN storage ELSE [storage EXCEPT !.principalId = p, !.userId = p]

\* requestConnect writes the principal and the wallet to localStorage; the
\* user is written by setUserId, which the header's effect always calls in
\* the end, BtnSelectWallet only if there is a user.
Remembered(p, w, restores) ==
  CASE p # None -> [storage EXCEPT !.principalId = p, !.walletType = w, !.userId = p]
    [] p = None /\ (restores # None \/ store.userId # None) -> [storage EXCEPT !.userId = store.userId]
    [] OTHER -> storage

\* The rest of BtnSelectWallet: with a user in the store, whoever it is, the
\* modal closes; without one, an error is shown; finally the page's flag.
Selected(user) ==
  EditClosed(IF user # None THEN [modal EXCEPT !.openCreateWallet = FALSE] ELSE modal)

\* requestConnect(w) returned for p to the caller: to BtnSelectWallet, or, if
\* a principal is being restored, to verifyConnectionAndAgent, which then
\* sets the account of the principal it read when the page was loaded.
Return(p, w, restores) ==
  LET connected == Connected(p, w)
  IN  IF restores = None
      THEN store' = connected /\ modal' = Selected(connected.userId)
      ELSE store' = [connected EXCEPT !.accountId = restores] /\ UNCHANGED modal

\* connect() finds a wallet that is not installed: it opens the wallet's
\* site and returns this.principalId, whatever that is by now.
NotDetected(w, restores) ==
  /\ w \in Missing
  /\ storage' = Remembered(adapter.principalId, w, restores)
  /\ Return(adapter.principalId, w, restores)
  /\ UNCHANGED <<adapter, creating, session, leaving, granted, stored, last>>

\* The user chooses a wallet in the modal.
BtnSelectWallet(t, w) ==
  /\ SelectWalletModal
  /\ task[t].pc = "idle"
  /\ \/ /\ w \notin Missing
        /\ task' = [task EXCEPT ![t] = [pc |-> "asking", wallet |-> w, restores |-> None]]
        /\ UNCHANGED <<adapter, storage, store, modal, creating, session, leaving, granted, stored, last>>
     \/ NotDetected(w, None) /\ UNCHANGED task

\* icrc1_decimals answered: verifyConnectionAndAgent goes on to requestConnect.
VerifyConnect(t) ==
  /\ task[t].pc = "decimals"
  /\ \/ /\ task[t].wallet \notin Missing
        /\ task' = [task EXCEPT ![t].pc = "asking"]
        /\ UNCHANGED <<adapter, storage, store, modal, creating, session, leaving, granted, stored, last>>
     \/ /\ NotDetected(task[t].wallet, task[t].restores)
        /\ task' = [task EXCEPT ![t] = Idle]

\* A wrong variant, to be refuted: the restored principal is shown although
\* no wallet was asked.
VerifyTrusting(t) ==
  /\ task[t].pc = "decimals"
  /\ task' = [task EXCEPT ![t] = Idle]
  /\ storage' = [storage EXCEPT !.userId = task[t].restores]
  /\ store' = [store EXCEPT !.userId = task[t].restores, !.connectType = storage.walletType]
  /\ UNCHANGED <<adapter, modal, creating, session, leaving, granted, stored, last>>

\* icrc1_decimals failed: only the `finally` of the header's effect runs.
VerifyFailed(t) ==
  /\ task[t].pc = "decimals"
  /\ task' = [task EXCEPT ![t] = Idle]
  /\ storage' = [storage EXCEPT !.userId = store.userId]
  /\ UNCHANGED <<adapter, store, modal, creating, session, leaving, granted, stored, last>>

\* connectWallet answered principal p: the adapter keeps it, and returns it.
\* The actors it has cached stay.
Grant(t, p) ==
  LET w == task[t].wallet
  IN  /\ adapter' = [adapter EXCEPT !.principalId = p, !.provider = w]
      /\ storage' = [Remembered(p, w, task[t].restores) EXCEPT !.dfinityWallet = w]
      /\ Return(p, w, task[t].restores)
      /\ granted' = [user |-> p, wallet |-> w]
      /\ task' = [task EXCEPT ![t] = Idle]
      /\ UNCHANGED <<creating, leaving, stored, last>>

\* The wallet still holds a session: no login is asked for.
Authenticated(t) ==
  /\ task[t].pc = "asking"
  /\ session[task[t].wallet] # None
  /\ Grant(t, session[task[t].wallet])
  /\ UNCHANGED session

\* The wallet holds none: an extension is first disconnected by force, ...
AskLogin(t) ==
  /\ task[t].pc = "asking"
  /\ session[task[t].wallet] = None
  /\ task[t].wallet \in Extensions
  /\ session' = [w \in Wallets |-> IF w \in Extensions THEN None ELSE session[w]]
  /\ task' = [task EXCEPT ![t].pc = "login"]
  /\ UNCHANGED <<adapter, storage, store, modal, creating, leaving, granted, stored, last>>

\* ... and a wallet of the web opens its login window.
AskWebLogin(t) ==
  /\ task[t].pc = "asking"
  /\ session[task[t].wallet] = None
  /\ task[t].wallet \notin Extensions
  /\ task' = [task EXCEPT ![t].pc = "login"]
  /\ UNCHANGED <<adapter, storage, store, modal, creating, session, leaving, granted, stored, last>>

\* The user logs in as p.  A login window that is closed never answers.
Login(t, p) ==
  /\ task[t].pc = "login"
  /\ session' = [session EXCEPT ![task[t].wallet] = p]
  /\ Grant(t, p)

\* A wrong variant, to be refuted: connect returns this.principalId although
\* the wallet answered false.
RefuseWithStale(t) ==
  /\ task[t].pc \in {"asking", "login"}
  /\ storage' = Remembered(adapter.principalId, task[t].wallet, task[t].restores)
  /\ Return(adapter.principalId, task[t].wallet, task[t].restores)
  /\ task' = [task EXCEPT ![t] = Idle]
  /\ UNCHANGED <<adapter, creating, session, leaving, granted, stored, last>>

\* connectWallet answers false or throws, and so connect returns false.
Refuse(t) ==
  /\ task[t].pc \in {"asking", "login"}
  /\ storage' = Remembered(None, task[t].wallet, task[t].restores)
  /\ Return(None, task[t].wallet, task[t].restores)
  /\ task' = [task EXCEPT ![t] = Idle]
  /\ UNCHANGED <<adapter, creating, session, leaving, granted, stored, last>>

----------------------------------------------------------------------------
(* Disconnecting.                                                          *)

\* BtnDisconnectWallet, in the popover of the connected user.  The adapter
\* tells the provider to log out, without waiting, and waits for
\* disconnect_force; without a provider it throws, and only
\* setAppDisconnect runs.
BtnDisconnectWallet(t) ==
  /\ UserModal
  /\ task[t].pc = "idle"
  /\ IF adapter.provider # None
     THEN /\ leaving' = leaving \cup {adapter.provider}
          /\ task' = [task EXCEPT ![t].pc = "forcing"]
          /\ storage' = [storage EXCEPT !.dfinityWallet = None]
          /\ UNCHANGED <<store, modal>>
     ELSE /\ storage' = [storage EXCEPT !.principalId = None, !.walletType = None, !.userId = None]
          /\ store' = [store EXCEPT !.userId = None]
          /\ modal' = EditClosed(modal)
          /\ UNCHANGED <<leaving, task>>
  /\ UNCHANGED <<adapter, creating, session, granted, stored, last>>

\* disconnect_force is through: the adapter drops its provider (neither the
\* actors nor principalId), localStorage is cleared, the store's user too.
DisconnectForced(t) ==
  /\ task[t].pc = "forcing"
  /\ adapter' = [adapter EXCEPT !.provider = None]
  /\ session' = [w \in Wallets |-> IF w \in Extensions THEN None ELSE session[w]]
  /\ storage' = Cleared
  /\ store' = [store EXCEPT !.userId = None]
  /\ modal' = EditClosed(modal)
  /\ task' = [task EXCEPT ![t] = Idle]
  /\ UNCHANGED <<creating, leaving, granted, stored, last>>

\* A wallet has logged its user out.
LoggedOut(w) ==
  /\ w \in leaving
  /\ leaving' = leaving \ {w}
  /\ session' = [session EXCEPT ![w] = None]
  /\ UNCHANGED <<adapter, storage, store, modal, task, creating, granted, stored, last>>

----------------------------------------------------------------------------
(* Calls: the pages call canisters through createWalletActor.              *)

\* A page acts for the connected user: getCanisterActor finds the actor in
\* the cache, or asks the provider for one, or has no provider and throws.
GetCanisterActor(c) ==
  /\ store.userId # None
  /\ \/ /\ adapter.canisterActors[c] # None
        /\ last' = [signer |-> adapter.canisterActors[c], user |-> store.userId]
        /\ UNCHANGED creating
     \/ /\ adapter.canisterActors[c] = None
        /\ adapter.provider # None
        /\ creating' = creating \cup
             {[canister |-> c, signer |-> adapter.principalId, user |-> store.userId]}
        /\ UNCHANGED last
  /\ UNCHANGED <<adapter, storage, store, modal, task, session, leaving, granted, stored>>

\* The provider created the actor: it is cached for its canister, and the
\* call is made with it.
ActorCreated(a) ==
  /\ a \in creating
  /\ creating' = creating \ {a}
  /\ adapter' = [adapter EXCEPT !.canisterActors[a.canister] = a.signer]
  /\ last' = [signer |-> a.signer, user |-> a.user]
  /\ UNCHANGED <<storage, store, modal, task, session, leaving, granted, stored>>

----------------------------------------------------------------------------
Next ==
  \/ \E t \in Tasks :
       \/ Reload(t)
       \/ \E w \in Wallets : BtnSelectWallet(t, w)
       \/ VerifyConnect(t)
       \/ VerifyFailed(t)
       \/ Authenticated(t)
       \/ AskLogin(t)
       \/ AskWebLogin(t)
       \/ \E p \in Users : Login(t, p)
       \/ Refuse(t)
       \/ BtnDisconnectWallet(t)
       \/ DisconnectForced(t)
  \/ HandleOpenWallet
  \/ OnWellModal
  \/ HandleCloseWallet
  \/ \E w \in Wallets : LoggedOut(w)
  \/ \E c \in Canisters : GetCanisterActor(c)
  \/ \E a \in creating : ActorCreated(a)

Spec == Init /\ [][Next]_vars

----------------------------------------------------------------------------
(* Properties.                                                             *)

\* The page shows nobody but the user a wallet of this page granted last: no path
\* (a failed connect, a wallet that is not installed, a restored session, an
\* overlapping connect) shows a user on the word of localStorage, or an earlier
\* one again.
ShownUserWasGranted == store.userId # None => store.userId = granted.user

\* While a user is shown, localStorage holds that user's principal and names the
\* wallet that granted it, so that a reload asks the right wallet; once nothing
\* is being restored, both keep the same user.  One wallet may be named that
\* granted nothing: a wallet that is not installed.  For it connect returns
\* whatever principalId the adapter still has, from before a disconnect or from
\* an overlapping connect, and this is shown and stored under that wallet; a
\* reload finds the wallet missing still, and restores nobody.
StoredWalletGranted ==
  /\ store.userId # None =>
       /\ storage.principalId = store.userId
       /\ storage.walletType \in Missing \cup {granted.wallet}
  /\ storage.userId # store.userId => \E t \in Tasks : task[t].restores # None

\* The account id the header shows and copies is that of the shown user, or
\* of the principal that was restored when the page was loaded: a restoring
\* that ends late may set it, nothing else may.
AccountOfUser == store.userId # None => store.accountId \in {store.userId, stored}

\* A page that asks for a connection gets the modal: its flag is never left
\* set while the header's is not, so that the effect cannot miss the next
\* request.
RequestOpensModal == modal.openSelectWell => modal.openCreateWallet

\* What the adapter's README promises of it, "Automatic updating of data in
\* response to changes in the wallet": every call is signed by the user the
\* page shows.  Refuted: the cached actors outlive a change of the user.
SignerFollowsWallet == last.signer = last.user

============================================================================
