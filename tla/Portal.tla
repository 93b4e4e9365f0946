-------------------------------- MODULE Portal --------------------------------
(***************************************************************************)
(* Sessions and VoucherAuth together: a request that verify_voucher_radius *)
(* has let through goes on to the session of the device (RoomCheck), and   *)
(* the MAC branch admits devices by their last session alone.  Both work   *)
(* on one database and one clock.                                          *)
(***************************************************************************)
EXTENDS Sessions

CONSTANTS Limits, Lifetimes

VARIABLES vouchers, voucher_devices, voucher_guests, vreq, admitted

V == INSTANCE VoucherAuth

ASSUME PortalAssumption ==
  /\ Limits \subseteq Nat \ {0} /\ Lifetimes \subseteq Nat
  /\ IsFiniteSet(Requests)
  /\ None \notin V!Voucher

voucherVars == <<vouchers, voucher_devices, voucher_guests, vreq, admitted>>
sessionVars == <<guest_sessions, req, cleanup, granted, accepted, nas>>

PortalInit == Init /\ V!Init

\* Mutant: the session is opened before the device is registered.
VoucherSessionFirst(r, s) ==
  /\ vreq[r].pc = "count"
  /\ RoomCheck(s, vreq[r].voucher, vreq[r].mac)
  /\ UNCHANGED voucherVars

\* The rest of verify_voucher_radius runs in a slot of Sessions.
VoucherSession(r, s) ==
  /\ RoomCheck(s, vreq[r].voucher, vreq[r].mac)
  /\ V!VerifySession(r)

\* The steps of /radius-check that Sessions takes by itself: all but the begin
\* of a voucher's session.
CheckAlone(r) ==
  \/ \E m \in Macs : \/ MacCheck(r, m)
                     \/ \E p \in Phones : PhoneCheck(r, p, m)
                     \/ \E x \in Rooms : RoomCheck(r, x, m)
  \/ CountDevices(r) \/ MacOpen(r) \/ UpdateSession(r) \/ StartSession(r)
  \/ ReplyAccept(r) \/ CrashRequest(r)

PortalNext ==
  \/ /\ \/ \E r \in Requests : CheckAlone(r)
        \/ \E a \in Accts : Accounting(a) \/ NasStart(a) \/ NasStop(a)
        \/ CleanupRead \/ CleanupClose \/ CrashCleanup
     /\ UNCHANGED voucherVars
  \/ /\ \/ \E r \in Requests : V!Verify(r)
        \/ \E v \in Vouchers : V!Manage(v)
     /\ UNCHANGED sessionVars
  \/ \E r, s \in Requests : VoucherSession(r, s)
  \/ Tick /\ UNCHANGED voucherVars

PortalSpec == PortalInit /\ [][PortalNext]_<<vars, voucherVars>>

-----------------------------------------------------------------------------
(* Properties. *)

\* Every session of a voucher's guest is on a device that the voucher branch let
\* through under that very voucher, however the row came to its device: by the
\* branch itself, by MAC authentication or by a Start report.
VoucherGuestsWereLetThrough ==
  \A i \in SessionIds :
    guest_sessions[i].guest_id \in Vouchers =>
      <<guest_sessions[i].guest_id, guest_sessions[i].mac>> \in admitted

\* No login on a voucher begins after it was disabled: "Отключить ваучер?
\* Дальнейший вход по нему будет запрещён" (Disable the voucher?  Further
\* login with it will be forbidden, app.py:3843).
RevokedVoucherIsClosed ==
  [][\A r \in Requests, m \in Macs :
       MacCheck(r, m) /\ req'[r].who \in Vouchers => vouchers[req'[r].who].status # "revoked"
    ]_<<vars, voucherVars>>

=============================================================================
