----------------------------- MODULE GoKeychain -----------------------------
(***************************************************************************)
(* The Go bindings of the macOS Keychain (internal/go-keychain/keychain.go *)
(* and corefoundation.go) as the store uses them: an Item is a map of      *)
(* attributes, a call turns it into a CFDictionary one attribute at a      *)
(* time, hands it to the Security framework and converts what comes back.  *)
(* CoreFoundation objects are counted by hand: a binding releases what it  *)
(* made with deferred calls, on every way out.                             *)
(*                                                                         *)
(* The Keychains and CoreFoundation are external.  macOS has two Keychains *)
(* behind one interface: the file-based one, whose items have no access    *)
(* group, and the data protection one, whose items always have one (the    *)
(* attribute lists at keychain.go:149).  A store uses the second if it was *)
(* made with the option WithUseDataProtectionKeychain.  Stores of several  *)
(* applications share both; items that no store wrote may be in them too.  *)
(***************************************************************************)
EXTENDS Integers, FiniteSets, Bags

CONSTANTS
  Name,      \* service names and groups; "" is one of them
  ID,        \* identifiers
  Alien,     \* an account that is no identifier
  MaxCalls,  \* bound: calls in a behaviour
  NoStore,   \* no store yet
  Faults     \* {"convert"} if a value may fail to convert, {} otherwise

\* What the constants have to be.
GoKeychainAssumption ==
  "" \in Name /\ "" \notin ID /\ Alien \notin ID /\ MaxCalls \in Nat /\ Faults \subseteq {"convert"}

VARIABLES
  items,   \* the Keychains' items
  store,   \* the group and the name of the store that calls, and its option
  gpc,     \* where the call is
  call,    \* what was called: kind and identifier, and the data of a Save
  attr,    \* the Items to convert: "query", and "update" for UpdateItem
  todo,    \* attributes that are not converted yet, per Item
  refs,    \* retain counts of the CoreFoundation objects, a bag
  deferred,\* what the deferred Release calls of the running functions release
  dangling,\* TRUE once a released object was used or released again
  found,   \* what the Keychain returned and is not converted yet
  result,  \* what was converted: sets of items
  gres,    \* how the call ended
  gcalls

vars == <<items, store, gpc, call, attr, todo, refs, deferred, dangling, found, result,
          gres, gcalls>>

Dicts == {"query", "update"}

\* Attributes.  "class" stands for the three that every Item has from the start
\* with a constant value: class, accessible and returnAttributes.
Key == {"class", "limit", "service", "accessGroup",
        "dataProtection", "account", "returnData", "label", "data", "generic"}
Lists == {"metadata", "filter"}
Kinds == {"add", "update", "delete", "get"} \cup Lists
Generic == {"gob", "none", "junk"}   \* metadata as the store writes it, none, or other data

Data == {"bytes", "nil"}             \* what Marshal returns: bytes, or no slice at all

\* An item; the group "" is that of the file-based Keychain's items.
StoredItem == [service : Name, accessGroup : Name, account : ID \cup {Alien}, generic : Generic]
Protected(i) == i.accessGroup # ""

\* The types of the variables.
TypeOK ==
  /\ items \subseteq StoredItem
  /\ store \in [group : Name, name : Name, protected : BOOLEAN] \cup {NoStore}
  /\ gpc \in {"idle", "convert", "call", "results"}
  /\ call \in [kind : Kinds, id : ID \cup {""}, data : Data]
  /\ todo \in [Dicts -> SUBSET Key]
  /\ DOMAIN attr = Dicts /\ \A d \in Dicts : todo[d] \subseteq DOMAIN attr[d]
  /\ IsABag(refs) /\ IsABag(deferred)
  /\ dangling \in BOOLEAN
  /\ found \subseteq items /\ result \subseteq StoredItem
  /\ gres \in {"none", "ok", "duplicate", "notfound", "error"}
  /\ gcalls \in 0..MaxCalls

-----------------------------------------------------------------------------
(* Items *)

NewItem == <<>>
Set(a, k, v) == [x \in DOMAIN a \cup {k} |-> IF x = k THEN v ELSE a[x]]

Remove(a, k) == [x \in DOMAIN a \ {k} |-> a[x]]

\* The attribute is removed where the string is empty.
SetString(a, k, s) == IF s = "" THEN Remove(a, k) ELSE Set(a, k, s)

SetSecClass(a) == Set(a, "class", "ref")   \* with SetAccessible and SetReturnAttributes
SetMatchLimit(a, l) == Set(a, "limit", l)
SetReturnData(a) == Set(a, "returnData", "bool")
SetService(a, s) == SetString(a, "service", s)
SetAccessGroup(a, s) == SetString(a, "accessGroup", s)
SetUseDataProtectionKeychain(a) == Set(a, "dataProtection", "ref")
SetAccount(a, s) == SetString(a, "account", s)
SetLabel(a) == SetString(a, "label", "label")
SetData(a, b) == IF b = "nil" THEN Remove(a, "data") ELSE Set(a, "data", b)
SetGenericMetadata(a) == Set(a, "generic", "gob")

\* newKeychainItem: the Keychain's choice is the store's option, the account is
\* there only with an identifier.
newKeychainItem(id) ==
  LET base   == SetMatchLimit(SetSecClass(NewItem), "one")
      named  == SetAccessGroup(SetService(base, store.name), store.group)
      placed == IF store.protected THEN SetUseDataProtectionKeychain(named) ELSE named
  IN  IF id = "" THEN placed ELSE SetAccount(placed, id)

\* Attributes whose value is no constant: converting them makes an object,
\* and may fail.
Made == {"service", "accessGroup", "account", "label", "data", "generic"}

Init ==
  /\ items \in {{}} \cup {{i} : i \in {x \in StoredItem :
       x.service # "" /\ (x.account = Alien) = (x.generic # "gob")}}
  /\ store = NoStore
  /\ gpc = "idle"
  /\ call = [kind |-> "get", id |-> "", data |-> "nil"]
  /\ attr = [d \in Dicts |-> NewItem]
  /\ todo = [d \in Dicts |-> {}]
  /\ refs = EmptyBag
  /\ deferred = EmptyBag
  /\ dangling = FALSE
  /\ found = {}
  /\ result = {}
  /\ gres = "none"
  /\ gcalls = 0

\* Variant: New takes any group and name.
New_Unchecked(g, n, p) ==
  /\ gpc = "idle"
  /\ gcalls < MaxCalls
  /\ store' = [group |-> g, name |-> n, protected |-> p]
  /\ gcalls' = gcalls + 1
  /\ result' = {} /\ gres' = "ok"
  /\ UNCHANGED <<items, gpc, call, attr, todo, refs, deferred, dangling, found>>

\* New: group and name are required, the option is not; the availability check
\* is empty on macOS.
New(g, n, p) ==
  /\ gpc = "idle"
  /\ gcalls < MaxCalls
  /\ IF g = "" \/ n = "" THEN gres' = "error" /\ store' = NoStore
     ELSE gres' = "ok" /\ store' = [group |-> g, name |-> n, protected |-> p]
  /\ gcalls' = gcalls + 1
  /\ result' = {}
  /\ UNCHANGED <<items, gpc, call, attr, todo, refs, deferred, dangling, found>>

\* The Items the store's methods build for a call: Save with data b, Delete, Get
\* and the listing of GetAllMetadata and Filter.  UpdateItem belongs to the
\* bindings; their tests call it with an Item of new data, no store does.
ItemsOf(k, id, b) ==
  LET item == newKeychainItem(id)
  IN  [d \in Dicts |->
         IF d = "update" THEN IF k = "update" THEN SetData(NewItem, "bytes") ELSE NewItem
         ELSE CASE k = "add"  -> SetGenericMetadata(SetLabel(SetData(item, b)))
                [] k = "get"  -> SetReturnData(item)
                [] k \in Lists -> SetMatchLimit(item, "all")
                [] OTHER      -> item]

Call(k, id, b) ==
  /\ gpc = "idle" /\ store # NoStore
  /\ gcalls < MaxCalls
  /\ (k \in Lists) = (id = "")
  /\ b = "nil" \/ k = "add"
  /\ call' = [kind |-> k, id |-> id, data |-> b]
  /\ attr' = ItemsOf(k, id, b)
  /\ todo' = [d \in Dicts |-> DOMAIN ItemsOf(k, id, b)[d]]
  /\ gpc' = "convert"
  /\ result' = {} /\ gres' = "none"
  /\ gcalls' = gcalls + 1
  /\ UNCHANGED <<items, store, refs, deferred, dangling, found>>

-----------------------------------------------------------------------------
(* Conversion to CoreFoundation *)

\* The objects of an attribute of dictionary d, and the dictionary itself.
ValueRef(d, k) == <<d, k, "value">>
KeyRef(d, k) == <<d, k, "key">>
DictRef(d) == <<d, "", "dict">>
ResultRef == <<"result", "", "array">>

Contents(d) == {KeyRef(d, k) : k \in DOMAIN attr[d]} \cup
               {ValueRef(d, k) : k \in DOMAIN attr[d] \cap Made}

\* The dictionary the call is converting: "query" first.
Current == IF todo["query"] # {} \/ ~BagIn(DictRef("query"), refs) THEN "query" ELSE "update"

\* The deferred calls run, the dictionary's own objects go with its last
\* reference.
AfterDefers(b, defers) ==
  LET rest == b (-) defers
      gone == UNION {Contents(d) : d \in {e \in Dicts : BagIn(DictRef(e), b) /\ ~BagIn(DictRef(e), rest)}}
  IN  rest (-) SetToBag(gone)

\* A deferred Release of what is not there any more.
Overreleased(b, defers) == ~ (defers \sqsubseteq b)

Return(r, b, defers) ==
  /\ refs' = AfterDefers(b, defers)
  /\ dangling' = (dangling \/ Overreleased(b, defers))
  /\ deferred' = EmptyBag
  /\ todo' = [d \in Dicts |-> {}]
  /\ gpc' = "idle"
  /\ gres' = r
  /\ found' = {}

\* Variant: the value of an attribute is not released.
Convert_KeepsValue(k) ==
  /\ gpc = "convert"
  /\ k \in todo[Current]
  /\ LET d == Current
         made == SetToBag({KeyRef(d, k)} \cup {ValueRef(d, x) : x \in {k} \cap Made})
     IN  /\ refs' = refs (+) made
         /\ deferred' = deferred (+) SetToBag({KeyRef(d, k)})
         /\ todo' = [todo EXCEPT ![d] = @ \ {k}]
  /\ UNCHANGED <<items, store, gpc, call, attr, dangling, found, result, gres, gcalls>>

\* ConvertMapToCFDictionary, one attribute: its value and its key become
\* objects, and Release is deferred for both; constants are taken as they are.
Convert(k) ==
  /\ gpc = "convert"
  /\ k \in todo[Current]
  /\ LET d == Current
         made == SetToBag({KeyRef(d, k)} \cup {ValueRef(d, x) : x \in {k} \cap Made})
     IN  /\ refs' = refs (+) made
         /\ deferred' = deferred (+) made
         /\ todo' = [todo EXCEPT ![d] = @ \ {k}]
  /\ UNCHANGED <<items, store, gpc, call, attr, dangling, found, result, gres, gcalls>>

\* A string that is no UTF-8 or too long, data that are too large, metadata
\* gob cannot encode: the deferred calls of this function and of the caller run.
ConvertFails(k) ==
  /\ gpc = "convert"
  /\ "convert" \in Faults
  /\ k \in todo[Current] \cap Made
  /\ Return("error", refs, deferred)
  /\ UNCHANGED <<items, store, call, attr, result, gcalls>>

\* MapToCFDictionary retains keys and values; then the deferred calls release
\* the conversion's own references, and the caller defers the dictionary's.
MapToCFDictionary ==
  /\ gpc = "convert"
  /\ todo[Current] = {}
  /\ LET d == Current
         own == [o \in {x \in BagToSet(deferred) : x[1] = d /\ x[3] # "dict"} |-> deferred[o]]
     IN  /\ refs' = AfterDefers(refs (+) SetToBag(Contents(d) \cup {DictRef(d)}), own)
         /\ deferred' = (deferred (-) own) (+) SetToBag({DictRef(d)})
         /\ dangling' = (dangling \/ Overreleased(refs (+) SetToBag(Contents(d)), own))
         /\ gpc' = IF d = "query" /\ call.kind = "update" THEN "convert" ELSE "call"
  /\ UNCHANGED <<items, store, call, attr, todo, found, result, gres, gcalls>>

\* CFDictionaryCreate fails: the conversion's deferred calls run, then the
\* caller's.
DictionaryFails ==
  /\ gpc = "convert"
  /\ "convert" \in Faults
  /\ todo[Current] = {}
  /\ Return("error", refs, deferred)
  /\ UNCHANGED <<items, store, call, attr, result, gcalls>>

-----------------------------------------------------------------------------
(* The Security framework *)

\* An item matches when it agrees on service and account, where they are given.
\* Its group counts only if it has one; a query without the option searches both
\* Keychains.  (No store asks for synchronizable items.)
Matches(i, a) ==
  /\ \A k \in {"service", "account"} \cap DOMAIN a : i[k] = a[k]
  /\ Protected(i) => \A k \in {"accessGroup"} \cap DOMAIN a : i[k] = a[k]
  /\ "dataProtection" \in DOMAIN a => Protected(i)

Found == {i \in items : Matches(i, attr["query"])}

\* The dictionary and what is in it are alive while the framework reads them.
Alive == \A d \in Dicts : BagIn(DictRef(d), refs) =>
            \A o \in Contents(d) : BagIn(o, refs)

\* SecItemAdd: to the file-based Keychain, which drops the group, unless the
\* query says otherwise; one generic password per service, group and account.
AddItem ==
  /\ gpc = "call" /\ call.kind = "add"
  /\ LET a == attr["query"]
         i == [service |-> IF "service" \in DOMAIN a THEN a["service"] ELSE "",
               accessGroup |-> IF {"accessGroup", "dataProtection"} \subseteq DOMAIN a
                               THEN a["accessGroup"] ELSE "",
               account |-> a["account"], generic |-> a["generic"]]
         taken == \E j \in items : j.service = i.service /\ j.accessGroup = i.accessGroup
                                     /\ j.account = i.account
     IN  /\ items' = IF taken THEN items ELSE items \cup {i}
         /\ Return(IF taken THEN "duplicate" ELSE "ok", refs, deferred)
  /\ UNCHANGED <<store, call, attr, result, gcalls>>

\* SecItemUpdate writes the data of what matches.
UpdateItem ==
  /\ gpc = "call" /\ call.kind = "update"
  /\ Return(IF Found = {} THEN "notfound" ELSE "ok", refs, deferred)
  /\ UNCHANGED <<items, store, call, attr, result, gcalls>>

\* SecItemDelete; not finding the item is no error of the store's Delete.
DeleteItem ==
  /\ gpc = "call" /\ call.kind = "delete"
  /\ items' = items \ Found
  /\ Return("ok", refs, deferred)
  /\ UNCHANGED <<store, call, attr, result, gcalls>>

\* QueryItemRef: nothing, or one item or all that match in a result that
\* QueryItem has to release.
QueryItemRef ==
  /\ gpc = "call" /\ call.kind \in {"get"} \cup Lists
  /\ IF Found = {}
     THEN /\ Return(IF call.kind = "get" THEN "notfound" ELSE "ok", refs, deferred)
     ELSE /\ \E S \in SUBSET Found \ {{}} :
               /\ IF attr["query"]["limit"] = "one" THEN Cardinality(S) = 1 ELSE S = Found
               /\ found' = S
          /\ refs' = AfterDefers(refs (+) SetToBag({ResultRef}), deferred)
          /\ dangling' = (dangling \/ Overreleased(refs, deferred))
          /\ deferred' = SetToBag({ResultRef})
          /\ gpc' = "results"
          /\ UNCHANGED <<todo, gres>>
  /\ UNCHANGED <<items, store, call, attr, result, gcalls>>

\* Any framework call may fail with some status.
CallFails ==
  /\ gpc = "call"
  /\ "convert" \in Faults
  /\ Return("error", refs, deferred)
  /\ UNCHANGED <<items, store, call, attr, result, gcalls>>

\* convertResult: metadata that gob cannot decode fail the whole query.
ConvertResult(i) ==
  /\ gpc = "results"
  /\ i \in found
  /\ IF i.generic = "junk"
     THEN /\ Return("error", refs, deferred)
          /\ result' = {}
     ELSE /\ found' = found \ {i}
          /\ result' = result \cup {i}
          /\ UNCHANGED <<gpc, todo, refs, deferred, dangling, gres>>
  /\ UNCHANGED <<items, store, call, attr, gcalls>>

\* QueryItem is done.  An account that is no identifier is an error to
\* GetAllMetadata; Filter goes on without it.
QueryDone ==
  /\ gpc = "results"
  /\ found = {}
  /\ LET aliens == {i \in result : i.account = Alien}
         fails  == call.kind = "metadata" /\ aliens # {}
     IN  /\ Return(IF fails THEN "error" ELSE "ok", refs, deferred)
         /\ result' = IF fails THEN {} ELSE result \ aliens
  /\ UNCHANGED <<items, store, call, attr, gcalls>>

Next ==
  \/ \E g, n \in Name, p \in BOOLEAN : New(g, n, p)
  \/ \E k \in Kinds, id \in ID \cup {""}, b \in Data : Call(k, id, b)
  \/ \E k \in Key : Convert(k) \/ ConvertFails(k)
  \/ MapToCFDictionary \/ DictionaryFails
  \/ AddItem \/ UpdateItem \/ DeleteItem \/ QueryItemRef \/ CallFails
  \/ \E i \in found : ConvertResult(i)
  \/ QueryDone

Spec == Init /\ [][Next]_vars

-----------------------------------------------------------------------------
(* Properties *)

\* Manual reference counting: when a call is over, whichever conversion or
\* framework call failed, no object it made is left; no object is released
\* twice; and the framework never reads a released one
\* (ConvertMapToCFDictionary, QueryItem).
RefsBalanced ==
  /\ gpc = "idle" => refs = EmptyBag
  /\ gpc = "call" => Alive
  /\ ~dangling

\* A store changes and returns items of its own service only, and with an
\* identifier only that account's; no item of another access group, whether or
\* not it was made with the option; and with the option, no item that has no
\* group (New, newKeychainItem, SetString).  Without the option, stores of
\* different groups and one name do share the items that have none.
StoresIsolated ==
  [][\A i \in (items \ items') \cup (items' \ items) \cup (result' \ result) :
       /\ i.service = store.name
       /\ Protected(i) => i.accessGroup = store.group
       /\ store.protected => Protected(i)
       /\ call.id # "" => i.account = call.id]_vars

==============================================================================
