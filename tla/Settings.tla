-------------------------------- MODULE Settings --------------------------------
(***************************************************************************)
(* The encrypted store of the browser (storage.service.ts) and the         *)
(* settings of the vault page that are kept in it (vault.component.ts).    *)
(* The key is derived from a signature of the connected account over its   *)
(* address and the day, once for the life of the tab; without a key the    *)
(* store falls back to plain text.                                         *)
(***************************************************************************)
EXTENDS Browser

CONSTANTS Items,      \* the settings, in the order in which the page loads them
          Values,     \* what the user types
          Ciphertext, \* a sealed value read without a key
          MaxDay      \* bound of the calendar

Setting == ToSet(Items)

Key   == [account : Accounts, day : 1..MaxDay]
Entry == [value : Values, key : Key \cup {None}]

ASSUME SettingsAssumption ==
  /\ Items \in Seq(Setting) /\ MaxDay \in Nat \ {0}
  /\ None \notin Values \cup Entry \cup [value : Values, account : Accounts]
  /\ Ciphertext \notin Values \cup {None}

VARIABLES day,
          cryptoKey,   \* null, or whose signature of which day
          initCalls,   \* signatures that are asked for, each by a connection or by the page
          store,       \* object store: null, or the value and the key that seals it (None: plain)
          puts,        \* setItem and removeItem calls under way
          onVault,     \* is the vault page shown?
          toLoad,      \* settings it has still to load, or None while it waits for the signature
          reading,     \* null, or the text that a getItem under way will return
          shown,       \* the fields
          has,         \* hasUserJwt, hasNftStorageKey
          saved,       \* history: value and account of each put
          unread,      \* history: settings read in this visit without a key
          rejected,    \* history: settings whose last setItem of this visit has failed
          connected,   \* history: accounts connected in this tab
          crossPut     \* history: were two calls for one setting under way in this visit?

storeVars    == <<cryptoKey, store, saved>>
callVars     == <<initCalls, puts>>
fieldVars    == <<toLoad, reading, shown, has, unread, rejected, crossPut>>
settingsVars == <<day, storeVars, callVars, fieldVars, onVault, connected>>

Text  == Values \cup {Ciphertext}
Put   == [item : Setting, entry : Entry \cup {None}, account : Accounts, here : BOOLEAN]

SettingsTypeOK ==
  /\ day \in 1..MaxDay /\ cryptoKey \in Key \cup {None}
  /\ initCalls \in Seq([key : Key, by : {"connect", "page"}])
  /\ store \in [Setting -> Entry \cup {None}] /\ puts \in Seq(Put)
  /\ toLoad = None \/ toLoad \in Seq(Setting)
  /\ reading \in [item : Setting, text : Text \cup {None}] \cup {None}
  /\ shown \in [Setting -> Text \cup {None}] /\ has \subseteq Setting
  /\ saved \in [Setting -> [value : Values, account : Accounts] \cup {None}]
  /\ unread \subseteq Setting /\ rejected \subseteq Setting /\ connected \subseteq Accounts
  /\ {onVault, crossPut} \subseteq BOOLEAN

Blank == [k \in Setting |-> None]

\* The page goes, and its fields with it.
NoFields == /\ toLoad' = <<>> /\ reading' = None /\ shown' = Blank /\ has' = {}
            /\ unread' = {} /\ rejected' = {}

SettingsInit ==
  /\ day = 1 /\ store = Blank /\ saved = Blank
  /\ cryptoKey = None /\ initCalls = <<>> /\ puts = <<>>
  /\ onVault = FALSE /\ toLoad = <<>> /\ reading = None /\ shown = Blank /\ has = {}
  /\ unread = {} /\ rejected = {} /\ crossPut = FALSE /\ connected = {}

--------------------------------------------------------------------------------
\* StorageService

\* Seeded bug: the message does not name the account.
KeyFor_Shared(a) == [account |-> CHOOSE b \in Accounts : TRUE, day |-> day]

\* The signature of account a over its address and the date of today.
KeyFor(a) == [account |-> a, day |-> day]

\* initEncryption, up to the signature, by a connection or the page.
InitEncryption(a, by) == Sent(initCalls, [key |-> KeyFor(a), by |-> by])

\* encrypt; what is stored is plain without a key.
Encrypt(v) == [value |-> v, key |-> cryptoKey]

\* Seeded bug: what cannot be opened is returned as it is.
Decrypt_Raw(e) ==
  IF e = None THEN None
  ELSE IF e.key = cryptoKey THEN e.value ELSE Ciphertext

\* getItem and decrypt: null if there is nothing or the key does not open it; the
\* stored text if there is no key.
Decrypt(e) ==
  IF e = None THEN None
  ELSE IF e.key = cryptoKey THEN e.value
  ELSE IF cryptoKey = None THEN Ciphertext
  ELSE None

\* A transaction commits.
Commit(p) ==
  /\ store' = [store EXCEPT ![p.item] = p.entry]
  /\ saved' = [saved EXCEPT ![p.item] = IF p.entry = None THEN None
                                        ELSE [value |-> p.entry.value, account |-> p.account]]

--------------------------------------------------------------------------------
\* The wallet and the tab

\* The wallet connects, on a page that goes on to initEncryption or does not.
SettingsConnect(a) ==
  /\ address = None /\ address' = a
  /\ \/ cryptoKey = None /\ InitEncryption(a, "connect")
     \/ UNCHANGED initCalls
  /\ connected' = connected \cup {a}
  /\ UNCHANGED <<day, storeVars, puts, fieldVars, onVault>>

\* The page is left; its calls go on without it.
LeaveVault ==
  /\ onVault' = FALSE /\ NoFields /\ crossPut' = FALSE
  /\ initCalls' = [i \in DOMAIN initCalls |-> [initCalls[i] EXCEPT !.by = "connect"]]
  /\ puts' = [i \in DOMAIN puts |-> [puts[i] EXCEPT !.here = FALSE]]

\* The wallet disconnects, and the browser goes to the login page; the key stays.
SettingsDisconnect ==
  /\ address # None /\ address' = None
  /\ LeaveVault
  /\ UNCHANGED <<day, storeVars, connected>>

\* A page that waited for its signature goes on to load.
GoOn(i) ==
  /\ toLoad' = IF initCalls[i].by = "page" THEN Items ELSE toLoad
  /\ Taken(initCalls, i)
  /\ UNCHANGED <<address, day, store, puts, saved, onVault, reading, shown, has,
                 unread, rejected, connected, crossPut>>

\* The user signs: the last signature that comes is the one that counts.
Signed(i) == cryptoKey' = initCalls[i].key /\ GoOn(i)

\* The user refuses: "Using less secure mode."
Refused(i) == UNCHANGED cryptoKey /\ GoOn(i)

\* The tab is reloaded: of the wallet, the key and the page nothing is left, and
\* the first transaction under way has committed or not.
Reload ==
  /\ address' = None /\ cryptoKey' = None
  /\ initCalls' = <<>> /\ puts' = <<>>
  /\ onVault' = FALSE /\ NoFields /\ crossPut' = FALSE /\ connected' = {}
  /\ \/ UNCHANGED <<store, saved>>
     \/ puts # <<>> /\ Commit(Head(puts))
  /\ UNCHANGED day

NextDay ==
  /\ day < MaxDay /\ day' = day + 1
  /\ UNCHANGED <<address, storeVars, callVars, fieldVars, onVault, connected>>

--------------------------------------------------------------------------------
\* The vault page

\* ngOnInit: the settings are loaded when the key is there or cannot be had.
OpenVault ==
  /\ address # None /\ ~onVault
  /\ onVault' = TRUE
  /\ \/ /\ cryptoKey = None
        /\ toLoad' = None
        /\ InitEncryption(address, "page")
     \/ /\ cryptoKey # None
        /\ toLoad' = Items
        /\ UNCHANGED initCalls
  /\ crossPut' = (puts # <<>>)
  /\ UNCHANGED <<address, day, storeVars, puts, reading, shown, has, unread, rejected, connected>>

CloseVault ==
  /\ onVault
  /\ LeaveVault
  /\ UNCHANGED <<address, day, storeVars, connected>>

\* The next getItem, up to the end of its transaction ...
ReadItem ==
  /\ toLoad \notin {None, <<>>} /\ reading = None
  /\ reading' = [item |-> Head(toLoad), text |-> Decrypt(store[Head(toLoad)])]
  /\ unread' = IF cryptoKey = None THEN unread \cup {Head(toLoad)} ELSE unread
  /\ crossPut' = (crossPut \/ \E i \in DOMAIN puts : puts[i].item = Head(toLoad))
  /\ UNCHANGED <<address, day, storeVars, callVars, toLoad, shown, has, rejected, onVault, connected>>

\* ... and its text, which goes over what has been typed by now.
GotItem ==
  /\ reading # None
  /\ IF reading.text = None THEN UNCHANGED <<shown, has>>
     ELSE /\ shown' = [shown EXCEPT ![reading.item] = reading.text]
          /\ has' = has \cup {reading.item}
  /\ toLoad' = Tail(toLoad) /\ reading' = None
  /\ UNCHANGED <<address, day, storeVars, callVars, unread, rejected, onVault, connected, crossPut>>

\* A getItem that is rejected ends the loading.
ReadFails ==
  /\ reading # None
  /\ toLoad' = <<>> /\ reading' = None
  /\ UNCHANGED <<address, day, storeVars, callVars, shown, has, unread, rejected, onVault, connected,
                 crossPut>>

\* setItem or removeItem, up to the transaction.
StartPut(k, e) ==
  /\ onVault
  /\ Sent(puts, [item |-> k, entry |-> e, account |-> address, here |-> TRUE])
  /\ crossPut' = (crossPut \/ (reading # None /\ reading.item = k)
                           \/ \E i \in DOMAIN puts : puts[i].item = k)
  /\ UNCHANGED <<address, day, storeVars, initCalls, toLoad, reading, has, unread, rejected,
                 onVault, connected>>

\* saveUserPinataJwt, saveNftStorageKey: a value is typed and saved.
SaveItem(k, v) == shown' = [shown EXCEPT ![k] = v] /\ StartPut(k, Encrypt(v))

\* clearUserPinataJwt, clearNftStorageKey
ClearItem(k) == k \in has /\ UNCHANGED shown /\ StartPut(k, None)

\* The transaction is done, and the page takes notice if it is still there ...
PutDone(i) ==
  /\ Commit(puts[i])
  /\ rejected' = IF puts[i].here THEN rejected \ {puts[i].item} ELSE rejected
  /\ IF ~puts[i].here THEN UNCHANGED <<shown, has>>
     ELSE IF puts[i].entry = None
       THEN shown' = [shown EXCEPT ![puts[i].item] = None] /\ has' = has \ {puts[i].item}
       ELSE has' = has \cup {puts[i].item} /\ UNCHANGED shown
  /\ Taken(puts, i)
  /\ UNCHANGED <<address, day, cryptoKey, initCalls, toLoad, reading, unread, onVault,
                 connected, crossPut>>

\* ... or it is aborted: "storage error", and the field keeps what was typed.
PutFails(i) ==
  /\ rejected' = IF puts[i].here /\ puts[i].entry # None THEN rejected \cup {puts[i].item}
                                                         ELSE rejected
  /\ Taken(puts, i)
  /\ UNCHANGED <<address, day, storeVars, initCalls, toLoad, reading, shown, has, unread, onVault,
                 connected, crossPut>>

SettingsNext ==
  \/ \E a \in Accounts : SettingsConnect(a)
  \/ SettingsDisconnect \/ Reload \/ NextDay
  \/ \E i \in DOMAIN initCalls : Signed(i) \/ Refused(i)
  \/ OpenVault \/ CloseVault \/ ReadItem \/ GotItem \/ ReadFails
  \/ \E k \in Setting : ClearItem(k) \/ \E v \in Values : SaveItem(k, v)
  \/ \E i \in DOMAIN puts : PutDone(i) \/ PutFails(i)

--------------------------------------------------------------------------------
\* Properties

Settled == onVault /\ toLoad = <<>> /\ puts = <<>> /\ ~crossPut

\* A setting comes back as it was saved last or not at all, over reloads, days, failed
\* reads and writes, races of two signatures and changes of account; and "Using your own
\* Pinata account" is only said of one that is stored.  Two exceptions: read without a
\* key it may come back as ciphertext; and when a save has failed, the field goes on
\* showing what was typed, after a message.
SettingsComeBack ==
  Settled => \A k \in Setting \ unread :
               /\ k \notin rejected /\ shown[k] # None =>
                    saved[k] # None /\ shown[k] = saved[k].value
               /\ k \in has => store[k] # None

\* What one account has saved in the browser is not shown to another that uses it
\* after a reload.  In a tab where both have been connected it is, because the key
\* stays; and what the second one saves there is sealed for the first.
SettingsStayWithTheirAccount ==
  (Settled /\ Cardinality(connected) = 1) =>
    \A k \in Setting \ (unread \cup rejected) : shown[k] # None =>
      \/ saved[k].account = address
      \/ store[k].key # None /\ store[k].key.account = address
================================================================================
