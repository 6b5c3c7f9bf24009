------------------------ MODULE WalletSessionProofs -------------------------
(***************************************************************************)
(* The properties of WalletSession for any users, wallets, canisters and   *)
(* operations in flight.  Every way of connecting ends in Remembered and   *)
(* Return, about which one lemma says all that the invariant needs.        *)
(***************************************************************************)
EXTENDS WalletSession, TLAPS

\* The adapter knows the user that was granted last, also after a disconnect, and has
\* no provider without a principal.
AdapterGranted ==
  /\ adapter.principalId = granted.user
  /\ adapter.provider # None => adapter.principalId # None

\* A principal is never remembered without its wallet.
WalletRemembered == storage.principalId # None => storage.walletType # None

\* An operation that waits has its wallet; it restores nothing, or the principal
\* that was stored, and nothing once it is over.
Waiting(t) ==
  /\ task[t].pc \in {"asking", "login", "decimals"} => task[t].wallet # None
  /\ task[t].restores \in {None, stored}
  /\ task[t].pc \in {"idle", "forcing"} => task[t].restores = None

\* The inductive invariant.
SessionInv ==
  /\ TypeOK
  /\ ShownUserWasGranted
  /\ StoredWalletGranted
  /\ AccountOfUser
  /\ RequestOpensModal
  /\ AdapterGranted
  /\ WalletRemembered
  /\ \A t \in Tasks : Waiting(t)

\* What the user sees and the browser keeps: all of the invariant but the tasks,
\* the adapter and the wallets.
Visible ==
  /\ storage \in [principalId : MaybeUser, walletType : MaybeWallet,
                  userId : MaybeUser, dfinityWallet : MaybeWallet]
  /\ store \in [userId : MaybeUser, connectType : MaybeWallet, accountId : MaybeUser]
  /\ modal \in [openSelectWell : BOOLEAN, openCreateWallet : BOOLEAN]
  /\ ShownUserWasGranted
  /\ store.userId # None =>
       storage.principalId = store.userId /\ storage.walletType \in Missing \cup {granted.wallet}
  /\ AccountOfUser
  /\ RequestOpensModal
  /\ WalletRemembered

\* The page's state and the browser's store agree on the user.
Agrees == storage.userId = store.userId

\* requestConnect(w) ends with p, remembered with or without the wallet's own mark.
Remembers(p, w, restores) ==
  \E m \in MaybeWallet : storage' = [Remembered(p, w, restores) EXCEPT !.dfinityWallet = m]

\* A modal that is closed by editOpenSelectWell(false) is not asked for.
LEMMA EditClosedClosed ==
  ASSUME NEW m \in [openSelectWell : BOOLEAN, openCreateWallet : BOOLEAN]
  PROVE  /\ EditClosed(m) \in [openSelectWell : BOOLEAN, openCreateWallet : BOOLEAN]
         /\ ~EditClosed(m).openSelectWell
BY DEF EditClosed

\* Returning keeps the modal's flags together.
LEMMA ReturnModal ==
  ASSUME modal \in [openSelectWell : BOOLEAN, openCreateWallet : BOOLEAN], RequestOpensModal,
         NEW p, NEW w, NEW r, Return(p, w, r)
  PROVE  /\ modal' \in [openSelectWell : BOOLEAN, openCreateWallet : BOOLEAN]
         /\ RequestOpensModal'
<1>1. CASE r # None
  BY <1>1 DEF Return, RequestOpensModal
<1>2. CASE r = None
  <2> DEFINE m == IF Connected(p, w).userId # None
                  THEN [modal EXCEPT !.openCreateWallet = FALSE] ELSE modal
  <2>1. m \in [openSelectWell : BOOLEAN, openCreateWallet : BOOLEAN]
    OBVIOUS
  <2>2. modal' = EditClosed(m)
    BY <1>2 DEF Return, Selected
  <2> HIDE DEF m
  <2> QED BY <2>1, <2>2, EditClosedClosed DEF RequestOpensModal
<1> QED BY <1>1, <1>2

\* However a connection ends, what is shown stays true to what is kept.
LEMMA ConnectEnds ==
  ASSUME NoneAssumption, Visible, stored \in MaybeUser,
         NEW p \in MaybeUser, NEW w \in Wallets, NEW r \in {None, stored},
         Remembers(p, w, r), Return(p, w, r),
         p # None => p = granted'.user /\ w \in Missing \cup {granted'.wallet},
         p = None => granted' = granted,
         stored' = stored
  PROVE  /\ Visible'
         /\ Agrees' \/ (r = None /\ storage'.userId = storage.userId /\ store'.userId = store.userId)
<1>1. PICK m \in MaybeWallet : storage' = [Remembered(p, w, r) EXCEPT !.dfinityWallet = m]
  BY DEF Remembers
<1>2. /\ modal' \in [openSelectWell : BOOLEAN, openCreateWallet : BOOLEAN]
      /\ RequestOpensModal'
  BY ReturnModal DEF Visible
<1>3. w # None
  BY DEF NoneAssumption
<1>4. CASE p # None
  <2>1. storage' = [principalId |-> p, walletType |-> w, userId |-> p, dfinityWallet |-> m]
    BY <1>1, <1>4 DEF Remembered, Visible
  <2>2. \/ store' = [userId |-> p, connectType |-> w, accountId |-> p]
        \/ store' = [userId |-> p, connectType |-> w, accountId |-> stored]
    BY <1>4 DEF Return, Connected
  <2> QED BY <1>2, <1>3, <1>4, <2>1, <2>2
        DEF Visible, Agrees, ShownUserWasGranted, AccountOfUser, WalletRemembered, MaybeUser, MaybeWallet
<1>5. CASE p = None
  <2>1. \/ store' = store
        \/ r # None /\ store' = [store EXCEPT !.accountId = stored]
    BY <1>5 DEF Return, Connected
  <2>2. IF r # None \/ store.userId # None
        THEN storage' = [storage EXCEPT !.userId = store.userId, !.dfinityWallet = m]
        ELSE storage' = [storage EXCEPT !.dfinityWallet = m]
    BY <1>1, <1>5 DEF Remembered, Visible
  <2> QED BY <1>2, <1>5, <2>1, <2>2
        DEF Visible, Agrees, ShownUserWasGranted, AccountOfUser, WalletRemembered, MaybeUser, MaybeWallet
<1> QED BY <1>4, <1>5

\* The parts of the invariant that are about the header's operations.
Operations ==
  /\ task \in [Tasks -> [pc : {"idle", "decimals", "asking", "login", "forcing"},
                         wallet : MaybeWallet, restores : MaybeUser]]
  /\ \A t \in Tasks : Waiting(t)
  /\ storage.userId # store.userId => \E t \in Tasks : task[t].restores # None

\* The parts that are about the adapter and the wallets.
Held ==
  /\ adapter \in [principalId : MaybeUser, provider : MaybeWallet, canisterActors : [Canisters -> MaybeUser]]
  /\ creating \in SUBSET Actor
  /\ session \in [Wallets -> MaybeUser]
  /\ leaving \in SUBSET Wallets
  /\ granted \in [user : MaybeUser, wallet : MaybeWallet]
  /\ stored \in MaybeUser
  /\ last \in [signer : MaybeUser, user : MaybeUser]
  /\ AdapterGranted

LEMMA InvParts == SessionInv <=> Visible /\ Operations /\ Held
BY DEF SessionInv, Visible, Operations, Held, TypeOK, StoredWalletGranted

LEMMA InvPartsNext == Visible' /\ Operations' /\ Held' => SessionInv'
BY DEF SessionInv, Visible, Operations, Held, TypeOK, StoredWalletGranted

\* An operation that ends leaves the others as they wait, and the store and the
\* browser agree unless one of them restores.
LEMMA OperationEnds ==
  ASSUME NoneAssumption, Operations, NEW t \in Tasks, stored' = stored,
         task' = [task EXCEPT ![t] = Idle],
         Agrees' \/ (/\ task[t].restores = None
                     /\ storage'.userId = storage.userId /\ store'.userId = store.userId)
  PROVE  Operations'
<1>1. task' \in [Tasks -> [pc : {"idle", "decimals", "asking", "login", "forcing"},
                          wallet : MaybeWallet, restores : MaybeUser]]
  BY DEF Operations, Idle, MaybeUser, MaybeWallet
<1>2. \A s \in Tasks : Waiting(s)'
  BY DEF Operations, Waiting, Idle
<1>3. ASSUME storage'.userId # store'.userId
      PROVE  \E s \in Tasks : task'[s].restores # None
  <2>1. PICK s \in Tasks : task[s].restores # None
    BY <1>3 DEF Agrees, Operations
  <2>2. s # t
    BY <1>3, <2>1 DEF Agrees
  <2> QED BY <2>1, <2>2 DEF Operations
<1> QED BY <1>1, <1>2, <1>3 DEF Operations

\* An operation that goes on waiting, or starts with nothing to restore.
LEMMA OperationWaits ==
  ASSUME Operations, NEW t \in Tasks, UNCHANGED <<storage, store, stored>>,
         NEW pc \in {"asking", "login"}, NEW w \in Wallets, NEW r \in {None, stored},
         NoneAssumption, Held,
         r = task[t].restores,
         task' = [task EXCEPT ![t] = [pc |-> pc, wallet |-> w, restores |-> r]]
  PROVE  Operations'
BY DEF Operations, Waiting, Held, MaybeUser, MaybeWallet, NoneAssumption

LEMMA SessionInit == NoneAssumption /\ Init => SessionInv
BY DEF Init, SessionInv, TypeOK, FreshAdapter, FreshStore, Cleared, ClosedModals, NoCall, NoGrant, Idle,
       ShownUserWasGranted, StoredWalletGranted, AccountOfUser, RequestOpensModal, AdapterGranted,
       WalletRemembered, Waiting, MaybeUser, MaybeWallet, Actor

(***************************************************************************)
(* One lemma per group of actions.                                         *)
(***************************************************************************)
\* What connects keeps the adapter's part when it leaves the adapter alone.
LEMMA HeldUntouched ==
  ASSUME Held, UNCHANGED <<adapter, creating, session, leaving, granted, stored, last>>
  PROVE  Held'
BY DEF Held, AdapterGranted

\* connect() found no wallet: what the adapter still knows was granted.
LEMMA NotDetectedStep ==
  ASSUME NoneAssumption, WalletsAssumption, Visible, Held,
         NEW w, NEW r \in {None, stored}, NotDetected(w, r)
  PROVE  /\ Visible' /\ Held'
         /\ Agrees' \/ (r = None /\ storage'.userId = storage.userId /\ store'.userId = store.userId)
<1> DEFINE p == adapter.principalId
<1>1. w \in Wallets /\ p \in MaybeUser
  BY DEF NotDetected, WalletsAssumption, Held
<1>2. UNCHANGED <<adapter, creating, session, leaving, granted, stored, last>>
  BY DEF NotDetected
<1>3. p = granted'.user /\ granted' = granted /\ w \in Missing
  BY <1>2 DEF Held, AdapterGranted, NotDetected
<1>4. storage' = Remembered(p, w, r) /\ Return(p, w, r)
  BY DEF NotDetected
<1>5. Remembered(p, w, r) = [Remembered(p, w, r) EXCEPT !.dfinityWallet = storage.dfinityWallet]
  BY DEF Remembered, Visible
<1>6. Remembers(p, w, r)
  BY <1>4, <1>5 DEF Remembers, Visible
<1>7. stored \in MaybeUser
  BY DEF Held
<1> HIDE DEF p
<1> QED BY <1>1, <1>2, <1>3, <1>4, <1>6, <1>7, ConnectEnds, HeldUntouched

\* A wallet answered.
LEMMA GrantStep ==
  ASSUME NoneAssumption, Visible, Operations, Held,
         NEW t \in Tasks, NEW p \in Users, task[t].pc \in {"asking", "login"}, Grant(t, p),
         session' \in [Wallets -> MaybeUser]
  PROVE  Visible' /\ Operations' /\ Held'
<1> DEFINE w == task[t].wallet
           r == task[t].restores
<1>1. w \in Wallets /\ r \in {None, stored}
  BY DEF Operations, Waiting, MaybeWallet
<1>2. p \in MaybeUser /\ p # None
  BY DEF MaybeUser, NoneAssumption
<1>3. Remembers(p, w, r) /\ Return(p, w, r)
  <2>1. w \in MaybeWallet
    BY <1>1 DEF MaybeWallet
  <2> QED BY <2>1 DEF Grant, Remembers
<1>4. /\ granted' = [user |-> p, wallet |-> w] /\ stored' = stored
      /\ adapter' = [adapter EXCEPT !.principalId = p, !.provider = w]
      /\ task' = [task EXCEPT ![t] = Idle]
      /\ UNCHANGED <<creating, leaving, last>>
  BY DEF Grant
<1>5. Held'
  BY <1>1, <1>2, <1>4 DEF Held, AdapterGranted, MaybeUser, MaybeWallet
<1>6. stored \in MaybeUser
  BY DEF Held
<1> HIDE DEF w, r
<1>7. /\ Visible'
      /\ Agrees' \/ (r = None /\ storage'.userId = storage.userId /\ store'.userId = store.userId)
  BY <1>1, <1>2, <1>3, <1>4, <1>6, ConnectEnds
<1>8. Operations'
  BY <1>4, <1>7, OperationEnds DEF r
<1> QED BY <1>5, <1>7, <1>8

\* Connecting fails.
LEMMA RefuseStep ==
  ASSUME NoneAssumption, Visible, Operations, Held, NEW t \in Tasks, Refuse(t)
  PROVE  Visible' /\ Operations' /\ Held'
<1> DEFINE w == task[t].wallet
           r == task[t].restores
<1>1. w \in Wallets /\ r \in {None, stored}
  BY DEF Refuse, Operations, Waiting, MaybeWallet
<1>2. /\ storage' = Remembered(None, w, r) /\ Return(None, w, r)
      /\ task' = [task EXCEPT ![t] = Idle]
      /\ UNCHANGED <<adapter, creating, session, leaving, granted, stored, last>>
  BY DEF Refuse
<1>3. Remembered(None, w, r) = [Remembered(None, w, r) EXCEPT !.dfinityWallet = storage.dfinityWallet]
  BY DEF Remembered, Visible
<1>4. Remembers(None, w, r)
  BY <1>2, <1>3 DEF Remembers, Visible
<1>5. None \in MaybeUser /\ stored \in MaybeUser
  BY DEF MaybeUser, Held
<1> HIDE DEF w, r
<1>6. /\ Visible'
      /\ Agrees' \/ (r = None /\ storage'.userId = storage.userId /\ store'.userId = store.userId)
  BY <1>1, <1>2, <1>4, <1>5, ConnectEnds
<1>7. Operations'
  BY <1>2, <1>6, OperationEnds DEF r
<1> QED BY <1>2, <1>6, <1>7, HeldUntouched

\* The page is loaded again.
LEMMA ReloadStep ==
  ASSUME NoneAssumption, Visible, Operations, Held, NEW t \in Tasks, Reload(t)
  PROVE  Visible' /\ Operations' /\ Held'
<1>1. /\ adapter' = FreshAdapter /\ store' = FreshStore /\ modal' = ClosedModals
      /\ creating' = {} /\ granted' = NoGrant /\ stored' = storage.principalId /\ last' = NoCall
      /\ session' \in [Wallets -> MaybeUser] /\ leaving' = leaving
  BY DEF Reload, Held
<1>2. Held'
  BY <1>1 DEF Held, AdapterGranted, FreshAdapter, NoCall, NoGrant, MaybeUser, MaybeWallet, Visible
<1>3. storage' = storage \/ storage' = [storage EXCEPT !.userId = None]
  BY DEF Reload
<1>4. Visible'
  BY <1>1, <1>3 DEF Visible, FreshStore, ClosedModals, ShownUserWasGranted, AccountOfUser,
                    RequestOpensModal, WalletRemembered, MaybeUser, MaybeWallet
<1>5. Operations'
  <2>1. CASE storage.principalId # None
    <3>1. task' = [s \in Tasks |->
                     IF s = t THEN [pc |-> "decimals", wallet |-> storage.walletType,
                                    restores |-> storage.principalId]
                     ELSE Idle]
      BY <2>1 DEF Reload
    <3>2. storage.walletType \in MaybeWallet /\ storage.walletType # None /\ storage.principalId \in MaybeUser
      BY <2>1 DEF Visible, WalletRemembered
    <3> QED BY <1>1, <2>1, <3>1, <3>2 DEF Operations, Waiting, Idle, MaybeUser, MaybeWallet
  <2>2. CASE storage.principalId = None
    <3>1. task' = [s \in Tasks |-> Idle] /\ storage' = [storage EXCEPT !.userId = None]
      BY <2>2 DEF Reload
    <3>2. storage'.userId = store'.userId
      BY <1>1, <3>1 DEF FreshStore, Visible
    <3> QED BY <3>1, <3>2 DEF Operations, Waiting, Idle, MaybeUser, MaybeWallet
  <2> QED BY <2>1, <2>2
<1> QED BY <1>2, <1>4, <1>5

\* Opening and closing the modal.
LEMMA ModalStep ==
  ASSUME Visible, Operations, Held, HandleOpenWallet \/ OnWellModal \/ HandleCloseWallet
  PROVE  Visible' /\ Operations' /\ Held'
<1>1. UNCHANGED <<adapter, storage, store, task, creating, session, leaving, granted, stored, last>>
  BY DEF HandleOpenWallet, OnWellModal, HandleCloseWallet
<1>2. modal' \in [openSelectWell : BOOLEAN, openCreateWallet : BOOLEAN] /\ RequestOpensModal'
  <2>1. ASSUME HandleOpenWallet
        PROVE  modal' \in [openSelectWell : BOOLEAN, openCreateWallet : BOOLEAN] /\ RequestOpensModal'
    BY <2>1 DEF HandleOpenWallet, Visible, RequestOpensModal
  <2>2. ASSUME OnWellModal
        PROVE  modal' \in [openSelectWell : BOOLEAN, openCreateWallet : BOOLEAN] /\ RequestOpensModal'
    <3> DEFINE b == modal.openCreateWallet \/ ~modal.openSelectWell
    <3>1. modal' = [openSelectWell |-> TRUE, openCreateWallet |-> b]
      BY <2>2 DEF OnWellModal
    <3>2. b \in BOOLEAN
      OBVIOUS
    <3>3. b
      BY Zenon DEF Visible, RequestOpensModal
    <3> HIDE DEF b
    <3> QED BY <3>1, <3>2, <3>3 DEF RequestOpensModal
  <2>3. ASSUME HandleCloseWallet
        PROVE  modal' \in [openSelectWell : BOOLEAN, openCreateWallet : BOOLEAN] /\ RequestOpensModal'
    BY <2>3 DEF HandleCloseWallet, ClosedModals, RequestOpensModal
  <2> QED BY <2>1, <2>2, <2>3
<1>3. Visible'
  BY <1>1, <1>2 DEF Visible, ShownUserWasGranted, AccountOfUser, WalletRemembered
<1>4. Operations' /\ Held'
  BY <1>1 DEF Operations, Waiting, Held, AdapterGranted
<1> QED BY <1>3, <1>4

\* An operation goes on to ask its wallet, or to wait for a login.
LEMMA AskStep ==
  ASSUME NoneAssumption, Visible, Operations, Held, NEW t \in Tasks, AskLogin(t) \/ AskWebLogin(t)
  PROVE  Visible' /\ Operations' /\ Held'
<1>1. /\ UNCHANGED <<adapter, storage, store, modal, creating, leaving, granted, stored, last>>
      /\ session' \in [Wallets -> MaybeUser]
  BY DEF AskLogin, AskWebLogin, Held, MaybeUser
<1>2. /\ task[t].wallet \in Wallets /\ task[t].restores \in {None, stored}
      /\ task' = [task EXCEPT ![t] = [pc |-> "login", wallet |-> task[t].wallet,
                                      restores |-> task[t].restores]]
  BY DEF AskLogin, AskWebLogin, Operations, Waiting, MaybeWallet
<1>3. Operations'
  BY <1>1, <1>2, OperationWaits
<1> QED BY <1>1, <1>3 DEF Visible, Held, ShownUserWasGranted, AccountOfUser, RequestOpensModal,
                          AdapterGranted, WalletRemembered

\* The user chooses a wallet.
LEMMA SelectStep ==
  ASSUME NoneAssumption, WalletsAssumption, Visible, Operations, Held,
         NEW t \in Tasks, NEW w \in Wallets, BtnSelectWallet(t, w)
  PROVE  Visible' /\ Operations' /\ Held'
<1>0. task[t].restores = None
  BY DEF BtnSelectWallet, Operations, Waiting
<1>1. CASE NotDetected(w, None) /\ UNCHANGED task
  <2>1. /\ Visible' /\ Held'
        /\ Agrees' \/ (storage'.userId = storage.userId /\ store'.userId = store.userId)
    BY <1>1, NotDetectedStep
  <2>2. stored' = stored
    BY <1>1 DEF NotDetected
  <2>3. Operations'
    BY <1>1, <2>1, <2>2 DEF Operations, Waiting, Agrees
  <2> QED BY <2>1, <2>3
<1>2. CASE ~(NotDetected(w, None) /\ UNCHANGED task)
  <2>1. /\ task' = [task EXCEPT ![t] = [pc |-> "asking", wallet |-> w, restores |-> None]]
        /\ UNCHANGED <<adapter, storage, store, modal, creating, session, leaving, granted, stored, last>>
    BY <1>2 DEF BtnSelectWallet
  <2>2. Operations'
    BY <1>0, <2>1, OperationWaits
  <2> QED BY <2>1, <2>2 DEF Visible, Held, ShownUserWasGranted, AccountOfUser, RequestOpensModal,
                            AdapterGranted, WalletRemembered
<1> QED BY <1>1, <1>2

\* The restoring of a session goes on, or is given up.
LEMMA VerifyStep ==
  ASSUME NoneAssumption, WalletsAssumption, Visible, Operations, Held,
         NEW t \in Tasks, VerifyConnect(t) \/ VerifyFailed(t)
  PROVE  Visible' /\ Operations' /\ Held'
<1> DEFINE w == task[t].wallet
           r == task[t].restores
<1>0. w \in Wallets /\ r \in {None, stored}
  BY DEF VerifyConnect, VerifyFailed, Operations, Waiting, MaybeWallet
<1>1. CASE VerifyFailed(t)
  <2>1. /\ task' = [task EXCEPT ![t] = Idle] /\ storage' = [storage EXCEPT !.userId = store.userId]
        /\ UNCHANGED <<adapter, store, modal, creating, session, leaving, granted, stored, last>>
    BY <1>1 DEF VerifyFailed
  <2>2. Visible' /\ Agrees'
    BY <2>1 DEF Visible, Agrees, ShownUserWasGranted, AccountOfUser, RequestOpensModal, WalletRemembered
  <2>3. Operations'
    BY <2>1, <2>2, OperationEnds
  <2> QED BY <2>1, <2>2, <2>3, HeldUntouched
<1>2. CASE VerifyConnect(t) /\ w \notin Missing
  <2>0. ~NotDetected(w, r)
    BY <1>2 DEF NotDetected
  <2>1. /\ task' = [task EXCEPT ![t] = [pc |-> "asking", wallet |-> w, restores |-> r]]
        /\ UNCHANGED <<adapter, storage, store, modal, creating, session, leaving, granted, stored, last>>
    BY <1>2, <2>0 DEF VerifyConnect, Operations
  <2>2. Operations'
    BY <1>0, <2>1, OperationWaits
  <2> QED BY <2>1, <2>2 DEF Visible, Held, ShownUserWasGranted, AccountOfUser, RequestOpensModal,
                            AdapterGranted, WalletRemembered
<1>3. CASE VerifyConnect(t) /\ w \in Missing
  <2>1. NotDetected(w, r) /\ task' = [task EXCEPT ![t] = Idle]
    BY <1>3 DEF VerifyConnect
  <2>2. stored' = stored
    BY <2>1 DEF NotDetected
  <2>3. /\ Visible' /\ Held'
        /\ Agrees' \/ (r = None /\ storage'.userId = storage.userId /\ store'.userId = store.userId)
    BY <1>0, <2>1, NotDetectedStep
  <2>4. Operations'
    BY <2>1, <2>2, <2>3, OperationEnds
  <2> QED BY <2>3, <2>4
<1> QED BY <1>1, <1>2, <1>3

\* Disconnecting, at once or when disconnect_force is through.
LEMMA DisconnectStep ==
  ASSUME NoneAssumption, Visible, Operations, Held,
         NEW t \in Tasks, BtnDisconnectWallet(t) \/ DisconnectForced(t)
  PROVE  Visible' /\ Operations' /\ Held'
<1>1. CASE BtnDisconnectWallet(t) /\ adapter.provider # None
  <2>1. /\ leaving' = leaving \cup {adapter.provider} /\ adapter.provider \in Wallets
        /\ task[t].pc = "idle" /\ task' = [task EXCEPT ![t].pc = "forcing"]
        /\ storage' = [storage EXCEPT !.dfinityWallet = None]
        /\ UNCHANGED <<adapter, store, modal, creating, session, granted, stored, last>>
    BY <1>1 DEF BtnDisconnectWallet, Held, MaybeWallet
  <2>2. Visible'
    BY <2>1 DEF Visible, ShownUserWasGranted, AccountOfUser, RequestOpensModal, WalletRemembered, MaybeWallet
  <2>3. storage'.userId = storage.userId
    BY <2>1 DEF Visible
  <2>4. Operations'
    BY <2>1, <2>3 DEF Operations, Waiting
  <2> QED BY <2>1, <2>2, <2>4 DEF Held, AdapterGranted
<1>2. CASE BtnDisconnectWallet(t) /\ adapter.provider = None
  <2>1. /\ storage' = [storage EXCEPT !.principalId = None, !.walletType = None, !.userId = None]
        /\ store' = [store EXCEPT !.userId = None] /\ modal' = EditClosed(modal)
        /\ UNCHANGED <<adapter, task, creating, session, leaving, granted, stored, last>>
    BY <1>2 DEF BtnDisconnectWallet
  <2>2. modal' \in [openSelectWell : BOOLEAN, openCreateWallet : BOOLEAN] /\ RequestOpensModal'
    BY <2>1, EditClosedClosed DEF Visible, RequestOpensModal
  <2>3. Visible' /\ Agrees'
    BY <2>1, <2>2 DEF Visible, Agrees, ShownUserWasGranted, AccountOfUser, WalletRemembered, MaybeUser, MaybeWallet
  <2>4. Operations'
    BY <2>1, <2>3 DEF Operations, Waiting, Agrees
  <2> QED BY <2>1, <2>3, <2>4, HeldUntouched
<1>3. CASE DisconnectForced(t)
  <2>1. /\ adapter' = [adapter EXCEPT !.provider = None]
        /\ session' = [w \in Wallets |-> IF w \in Extensions THEN None ELSE session[w]]
        /\ storage' = Cleared /\ store' = [store EXCEPT !.userId = None]
        /\ modal' = EditClosed(modal) /\ task' = [task EXCEPT ![t] = Idle]
        /\ UNCHANGED <<creating, leaving, granted, stored, last>>
    BY <1>3 DEF DisconnectForced
  <2>2. modal' \in [openSelectWell : BOOLEAN, openCreateWallet : BOOLEAN] /\ RequestOpensModal'
    BY <2>1, EditClosedClosed DEF Visible, RequestOpensModal
  <2>3. Visible' /\ Agrees'
    BY <2>1, <2>2 DEF Visible, Agrees, Cleared, ShownUserWasGranted, AccountOfUser, WalletRemembered,
                      MaybeUser, MaybeWallet
  <2>4. Operations'
    BY <2>1, <2>3, OperationEnds
  <2>5. Held'
    BY <2>1 DEF Held, AdapterGranted, MaybeUser, MaybeWallet
  <2> QED BY <2>3, <2>4, <2>5
<1> QED BY <1>1, <1>2, <1>3

\* The wallets and the calls touch nothing of what the user sees.
LEMMA CallStep ==
  ASSUME Visible, Operations, Held,
         \/ \E w \in Wallets : LoggedOut(w)
         \/ \E c \in Canisters : GetCanisterActor(c)
         \/ \E a \in creating : ActorCreated(a)
  PROVE  Visible' /\ Operations' /\ Held'
<1>1. /\ UNCHANGED <<storage, store, modal, task, granted, stored>>
      /\ adapter'.principalId = adapter.principalId /\ adapter'.provider = adapter.provider
  BY DEF LoggedOut, GetCanisterActor, ActorCreated, Held
<1>2. Visible' /\ Operations'
  BY <1>1 DEF Visible, Operations, Waiting, ShownUserWasGranted, AccountOfUser, RequestOpensModal,
              WalletRemembered
<1>3. AdapterGranted'
  BY <1>1 DEF Held, AdapterGranted
<1>4. ASSUME NEW w \in Wallets, LoggedOut(w) PROVE Held'
  BY <1>3, <1>4 DEF LoggedOut, Held, MaybeUser
<1>5. ASSUME NEW c \in Canisters, GetCanisterActor(c) PROVE Held'
  <2>1. CASE adapter.canisterActors[c] # None
    BY <1>3, <1>5, <2>1 DEF GetCanisterActor, Held, Visible
  <2>2. CASE adapter.canisterActors[c] = None
    <3>1. /\ creating' = creating \cup {[canister |-> c, signer |-> adapter.principalId, user |-> store.userId]}
          /\ UNCHANGED <<adapter, session, leaving, granted, stored, last>>
      BY <1>5, <2>2 DEF GetCanisterActor
    <3>2. adapter.principalId \in Users /\ store.userId \in Users
      BY <1>5, <2>2 DEF GetCanisterActor, Held, AdapterGranted, Visible, MaybeUser
    <3>3. [canister |-> c, signer |-> adapter.principalId, user |-> store.userId] \in Actor
      BY <3>2 DEF Actor
    <3> QED BY <1>3, <3>1, <3>3 DEF Held
  <2> QED BY <2>1, <2>2
<1>6. ASSUME NEW a \in creating, ActorCreated(a) PROVE Held'
  <2>1. a \in [canister : Canisters, signer : Users, user : Users]
    BY DEF Held, Actor
  <2>2. /\ creating' = creating \ {a} /\ adapter' = [adapter EXCEPT !.canisterActors[a.canister] = a.signer]
        /\ last' = [signer |-> a.signer, user |-> a.user]
        /\ UNCHANGED <<session, leaving, granted, stored>>
    BY <1>6 DEF ActorCreated
  <2>3. adapter' \in [principalId : MaybeUser, provider : MaybeWallet, canisterActors : [Canisters -> MaybeUser]]
    BY <2>1, <2>2 DEF Held, MaybeUser
  <2> QED BY <1>3, <2>1, <2>2, <2>3 DEF Held, MaybeUser
<1> QED BY <1>2, <1>4, <1>5, <1>6

(***************************************************************************)
(* The theorems.                                                           *)
(***************************************************************************)
LEMMA SessionStep == NoneAssumption /\ WalletsAssumption /\ SessionInv /\ [Next]_vars => SessionInv'
<1> SUFFICES ASSUME NoneAssumption, WalletsAssumption, SessionInv, [Next]_vars
             PROVE  Visible' /\ Operations' /\ Held'
  BY InvParts, InvPartsNext
<1> USE InvParts
<1>1. ASSUME NEW t \in Tasks, Reload(t) PROVE Visible' /\ Operations' /\ Held'
  BY <1>1, ReloadStep
<1>2. ASSUME NEW t \in Tasks, NEW w \in Wallets, BtnSelectWallet(t, w)
      PROVE  Visible' /\ Operations' /\ Held'
  BY <1>2, SelectStep
<1>3. ASSUME NEW t \in Tasks, VerifyConnect(t) \/ VerifyFailed(t)
      PROVE  Visible' /\ Operations' /\ Held'
  BY <1>3, VerifyStep
<1>4. ASSUME NEW t \in Tasks, Authenticated(t) PROVE Visible' /\ Operations' /\ Held'
  <2> DEFINE w == task[t].wallet
  <2>1. w \in Wallets /\ session[w] \in Users /\ session' \in [Wallets -> MaybeUser]
    BY <1>4 DEF Authenticated, Operations, Waiting, Held, MaybeUser, MaybeWallet
  <2> QED BY <1>4, <2>1, GrantStep DEF Authenticated
<1>5. ASSUME NEW t \in Tasks, AskLogin(t) \/ AskWebLogin(t) PROVE Visible' /\ Operations' /\ Held'
  BY <1>5, AskStep
<1>6. ASSUME NEW t \in Tasks, NEW p \in Users, Login(t, p) PROVE Visible' /\ Operations' /\ Held'
  <2>1. session' \in [Wallets -> MaybeUser]
    BY <1>6 DEF Login, Held, MaybeUser
  <2> QED BY <1>6, <2>1, GrantStep DEF Login
<1>7. ASSUME NEW t \in Tasks, Refuse(t) PROVE Visible' /\ Operations' /\ Held'
  BY <1>7, RefuseStep
<1>8. ASSUME NEW t \in Tasks, BtnDisconnectWallet(t) \/ DisconnectForced(t)
      PROVE  Visible' /\ Operations' /\ Held'
  BY <1>8, DisconnectStep
<1>9. ASSUME HandleOpenWallet \/ OnWellModal \/ HandleCloseWallet
      PROVE  Visible' /\ Operations' /\ Held'
  BY <1>9, ModalStep
<1>10. ASSUME \/ \E w \in Wallets : LoggedOut(w)
              \/ \E c \in Canisters : GetCanisterActor(c)
              \/ \E a \in creating : ActorCreated(a)
       PROVE  Visible' /\ Operations' /\ Held'
  BY <1>10, CallStep
<1>11. ASSUME UNCHANGED vars PROVE Visible' /\ Operations' /\ Held'
  BY <1>11 DEF vars, Visible, Operations, Waiting, Held, AdapterGranted, ShownUserWasGranted,
               AccountOfUser, RequestOpensModal, WalletRemembered
<1> QED BY <1>1, <1>2, <1>3, <1>4, <1>5, <1>6, <1>7, <1>8, <1>9, <1>10, <1>11 DEF Next

LEMMA SessionInvariant == Spec => []SessionInv
<1>1. Init => SessionInv
  BY SessionInit, NoneAssumption
<1>2. SessionInv /\ [Next]_vars => SessionInv'
  BY SessionStep, NoneAssumption, WalletsAssumption
<1> QED BY <1>1, <1>2, PTL DEF Spec

\* Every variable has its type; actors are created for connected users only.
THEOREM SessionTypeOK == Spec => []TypeOK
<1>1. SessionInv => TypeOK
  BY DEF SessionInv
<1> QED BY <1>1, SessionInvariant, PTL

\* Whoever is shown as connected is the user a wallet granted last since the page was
\* loaded (connect.ts:15-38), whatever localStorage held.
THEOREM ShownWasGranted == Spec => []ShownUserWasGranted
<1>1. SessionInv => ShownUserWasGranted
  BY DEF SessionInv
<1> QED BY <1>1, SessionInvariant, PTL

\* While a user is shown, localStorage names that user and the wallet that granted it, or
\* else a wallet that is not installed (connect.ts:15-38, index.js:55-58), whatever
\* operations of the header overtake each other.
THEOREM StoredWalletWasGranted == Spec => []StoredWalletGranted
<1>1. SessionInv => StoredWalletGranted
  BY DEF SessionInv
<1> QED BY <1>1, SessionInvariant, PTL

\* The account shown is the user's or the restored principal's (app.ts:147-157).
THEOREM AccountIsUsers == Spec => []AccountOfUser
<1>1. SessionInv => AccountOfUser
  BY DEF SessionInv
<1> QED BY <1>1, SessionInvariant, PTL

\* A page's request for a connection is never missed (header.tsx:176-182).
THEOREM RequestsOpenModal == Spec => []RequestOpensModal
<1>1. SessionInv => RequestOpensModal
  BY DEF SessionInv
<1> QED BY <1>1, SessionInvariant, PTL
=============================================================================
