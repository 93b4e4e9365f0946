------------------------------ MODULE RoomAccess ------------------------------
(***************************************************************************)
(* Guests who log in with room and surname: the objects of the two hotel   *)
(* systems (opera_store.py, onec_store.py) and their forms, the choice of  *)
(* the system that decides (integrations/pms/router.py), its answer, and   *)
(* the rows of guests that follow (the room branch of /radius-check).      *)
(*                                                                         *)
(* A step is one SELECT, one write transaction, one lookup in the cache of *)
(* Opera or one call to 1C.  Ids are never given twice; a deleted object   *)
(* leaves None.  The name of an object is taken to be its code.            *)
(***************************************************************************)
EXTENDS Integers, Sequences

CONSTANTS Hotels,    \* codes of hotels
          Guests,    \* room and surname: the identities of make_room_identity
          Requests,  \* slots for logins served at once
          Saves,     \* slots for forms of PMS objects served at once
          MaxSites,  \* bound: objects ever made of a kind
          None       \* SQL NULL, the absent row, the empty field

Kinds == {"opera", "onec"}

\* What the constants must be.
RoomAccessAssumption ==
  MaxSites \in Nat /\ None \notin Hotels \cup Guests \cup Int \cup {"current", "lapsed"}

\* key: whether auth_key or token is set.
Site == [code : Hotels, enabled : BOOLEAN, key : BOOLEAN]

NoSiteAssumption == None \notin Site

VARIABLES
  sites,   \* sites[k]: the table opera_sites or onec_sites
  guests,  \* guests[g]: no row, authorised within the window, or before it
  stays,   \* stays[k]: who is staying, according to Opera's cache or to 1C
  stayed,  \* everybody who ever was in one of them
  rreq,    \* rreq[r]: the login served in slot r
  save     \* save[s]: the form served in slot s

rvars == <<sites, guests, stays, stayed, rreq, save>>

Request == [pc : {"idle", "opera", "stays", "onec", "call", "guest", "insert"},
            guest : Guests \cup {None}, hotel : Hotels \cup {None}]

\* row and old: the id and the key of the object that was found, 0 for none.
Save == [pc : {"idle", "write"}, kind : Kinds, form : Site \cup {None},
         row : 0 .. MaxSites, old : BOOLEAN]

TypeOK ==
  /\ sites \in [Kinds -> Seq(Site \cup {None})]
  /\ \A k \in Kinds : Len(sites[k]) <= MaxSites
  /\ guests \in [Guests -> {None, "current", "lapsed"}]
  /\ stays \in [Kinds -> SUBSET Guests] /\ stayed \in SUBSET Guests
  /\ rreq \in [Requests -> Request]
  /\ save \in [Saves -> Save]

NoRequest == [pc |-> "idle", guest |-> None, hotel |-> None]

NoSave == [pc |-> "idle", kind |-> "opera", form |-> None, row |-> 0, old |-> FALSE]

Init ==
  /\ sites = [k \in Kinds |-> << >>]
  /\ guests = [g \in Guests |-> None]
  /\ stays = [k \in Kinds |-> {}] /\ stayed = {}
  /\ rreq = [r \in Requests |-> NoRequest]
  /\ save = [s \in Saves |-> NoSave]

\* The rows with a code: one at most, the column is UNIQUE.
Coded(k, code) == {i \in 1 .. Len(sites[k]) : sites[k][i] # None /\ sites[k][i].code = code}

-----------------------------------------------------------------------------
(* The forms of PMS objects. *)

\* The SELECT of the upsert.
SaveRead(s, k, form) ==
  LET found == Coded(k, form.code)
  IN /\ save[s].pc = "idle"
     /\ \/ found = {} /\ save' = [save EXCEPT ![s] = [pc |-> "write", kind |-> k, form |-> form,
                                                      row |-> 0, old |-> FALSE]]
        \/ \E i \in found :
             save' = [save EXCEPT ![s] = [pc |-> "write", kind |-> k, form |-> form,
                                          row |-> i, old |-> sites[k][i].key]]
     /\ UNCHANGED <<sites, guests, stays, stayed, rreq>>

\* Mutant: an empty field empties the key.
SaveUpdateBare(s) ==
  LET k == save[s].kind
      i == save[s].row
  IN /\ save[s].pc = "write" /\ i # 0
     /\ sites' = IF sites[k][i] = None THEN sites ELSE [sites EXCEPT ![k][i] = save[s].form]
     /\ save' = [save EXCEPT ![s] = NoSave]
     /\ UNCHANGED <<guests, stays, stayed, rreq>>

\* An object that was found is updated by id, with the key that was read if the
\* field was left empty; nothing happens if it is gone.
SaveUpdate(s) ==
  LET k == save[s].kind
      i == save[s].row
      form == save[s].form
  IN /\ save[s].pc = "write" /\ i # 0
     /\ sites' = IF sites[k][i] = None THEN sites
                 ELSE [sites EXCEPT ![k][i] = [form EXCEPT !.key = @ \/ save[s].old]]
     /\ save' = [save EXCEPT ![s] = NoSave]
     /\ UNCHANGED <<guests, stays, stayed, rreq>>

\* Otherwise it is inserted; a code that has been taken since is an error.
SaveInsert(s) ==
  LET k == save[s].kind
  IN /\ save[s].pc = "write" /\ save[s].row = 0
     /\ IF Coded(k, save[s].form.code) # {} THEN UNCHANGED sites
        ELSE /\ Len(sites[k]) < MaxSites
             /\ sites' = [sites EXCEPT ![k] = Append(@, save[s].form)]
     /\ save' = [save EXCEPT ![s] = NoSave]
     /\ UNCHANGED <<guests, stays, stayed, rreq>>

DeleteSite(k, i) ==
  /\ sites[k][i] # None
  /\ sites' = [sites EXCEPT ![k][i] = None]
  /\ UNCHANGED <<guests, stays, stayed, rreq, save>>

-----------------------------------------------------------------------------
(* A login with room and surname. *)

EndRequest(r) == rreq' = [rreq EXCEPT ![r] = NoRequest]

RequestAt(r, pc) == rreq' = [rreq EXCEPT ![r].pc = pc]

\* A guest who is still authorised is renewed and let in without a question to
\* the PMS; of the others the hotel must be known.
RoomCheck(r, g, hotel) ==
  /\ rreq[r].pc = "idle"
  /\ IF guests[g] = "current" \/ hotel = None THEN UNCHANGED rreq
     ELSE rreq' = [rreq EXCEPT ![r] = [pc |-> "opera", guest |-> g, hotel |-> hotel]]
  /\ UNCHANGED <<sites, guests, stays, stayed, save>>

\* An enabled Opera object of the hotel decides alone.
OperaSite(r) ==
  /\ rreq[r].pc = "opera"
  /\ RequestAt(r, IF \E i \in Coded("opera", rreq[r].hotel) : sites["opera"][i].enabled
                  THEN "stays" ELSE "onec")
  /\ UNCHANGED <<sites, guests, stays, stayed, save>>

\* Mutant: an error of the lookup lets the guest in.
OperaStaysOpen(r) ==
  /\ rreq[r].pc = "stays"
  /\ RequestAt(r, "guest")
  /\ UNCHANGED <<sites, guests, stays, stayed, save>>

\* room_auth_allowed looks for the guest in the cache, without the property_code
\* of the object; an error means no.
OperaStays(r) ==
  /\ rreq[r].pc = "stays"
  /\ \/ rreq[r].guest \in stays["opera"] /\ RequestAt(r, "guest")
     \/ EndRequest(r)
  /\ UNCHANGED <<sites, guests, stays, stayed, save>>

\* The 1C object must be enabled and have a token.
OneCSite(r) ==
  /\ rreq[r].pc = "onec"
  /\ IF \E i \in Coded("onec", rreq[r].hotel) : sites["onec"][i].enabled /\ sites["onec"][i].key
     THEN RequestAt(r, "call") ELSE EndRequest(r)
  /\ UNCHANGED <<sites, guests, stays, stayed, save>>

\* 1C says yes only of someone who is staying; a timeout, an HTTP error or an
\* answer that is not JSON means no.
OneCCall(r) ==
  /\ rreq[r].pc = "call"
  /\ \/ rreq[r].guest \in stays["onec"] /\ RequestAt(r, "guest")
     \/ EndRequest(r)
  /\ UNCHANGED <<sites, guests, stays, stayed, save>>

\* get_or_create_room_guest: the row is updated by id ...
GuestUpdate(r) ==
  /\ rreq[r].pc = "guest"
  /\ IF guests[rreq[r].guest] = None
     THEN RequestAt(r, "insert") /\ UNCHANGED guests
     ELSE /\ guests' = [guests EXCEPT ![rreq[r].guest] = "current"]
          /\ EndRequest(r)
  /\ UNCHANGED <<sites, stays, stayed, save>>

\* ... or inserted, which fails if another login of the guest was faster.
GuestInsert(r) ==
  /\ rreq[r].pc = "insert"
  /\ guests' = IF guests[rreq[r].guest] = None
               THEN [guests EXCEPT ![rreq[r].guest] = "current"] ELSE guests
  /\ EndRequest(r)
  /\ UNCHANGED <<sites, stays, stayed, save>>

-----------------------------------------------------------------------------
\* The reauthorisation window of a guest is over.
Lapse(g) ==
  /\ guests[g] = "current"
  /\ guests' = [guests EXCEPT ![g] = "lapsed"]
  /\ UNCHANGED <<sites, stays, stayed, rreq, save>>

\* Guests come and go, according to one of the systems.
CheckIn(k, g) ==
  /\ stays' = [stays EXCEPT ![k] = @ \cup {g}] /\ stayed' = stayed \cup {g}
  /\ UNCHANGED <<sites, guests, rreq, save>>

CheckOut(k, g) ==
  /\ stays' = [stays EXCEPT ![k] = @ \ {g}]
  /\ UNCHANGED <<sites, guests, stayed, rreq, save>>

RequestStep(r) ==
  \/ \E g \in Guests, hotel \in Hotels \cup {None} : RoomCheck(r, g, hotel)
  \/ OperaSite(r) \/ OperaStays(r) \/ OneCSite(r) \/ OneCCall(r)
  \/ GuestUpdate(r) \/ GuestInsert(r)

SaveStep(s) ==
  \/ \E k \in Kinds, form \in Site : SaveRead(s, k, form)
  \/ SaveUpdate(s) \/ SaveInsert(s)

Next ==
  \/ \E r \in Requests : RequestStep(r)
  \/ \E s \in Saves : SaveStep(s)
  \/ \E k \in Kinds : \/ \E i \in 1 .. Len(sites[k]) : DeleteSite(k, i)
                      \/ \E g \in Guests : CheckIn(k, g) \/ CheckOut(k, g)
  \/ \E g \in Guests : Lapse(g)

Spec == Init /\ [][Next]_rvars

-----------------------------------------------------------------------------
(* Properties. *)

\* Nobody has a row of a room guest who never stayed in the hotel, whatever fails
\* on the way and whichever object is disabled or removed meanwhile.
RoomGuestsStayed == \A g \in Guests : guests[g] # None => g \in stayed

\* With one form at a time, a key that has been typed in once is kept by every
\* later save, which sends the field empty.  (Two forms at once may bring back the
\* key the slower one had read.)
KeysStay ==
  \A k \in Kinds : \A i \in 1 .. Len(sites[k]) :
    sites[k][i] # None /\ sites[k][i].key /\ sites'[k][i] # None => sites'[k][i].key

KeysAreKept == [][\A s \in Saves : Saves = {s} => KeysStay]_rvars

=============================================================================
