----------------------- MODULE IntakeRegistrationMC ------------------------
(***************************************************************************)
(* A small instance of IntakeRegistration.  "atlas" and "atlas llc" are    *)
(* spellings of one firm, "alpha" and "alpha lp" of one fund.  The bundles *)
(* differ in the ways that matter to each other:                           *)
(*   first     registers one document                                     *)
(*   update    same firm and fund in other spellings, that document again  *)
(*             at a later instant, and a second one                        *)
(*   changed   the first document's id with other bytes, after a new one   *)
(*   channel   the first document by another channel                       *)
(*   other     another firm whose fund has the same name                   *)
(*   custom    the first firm's name under an explicit identifier          *)
(*   pinned    the first fund's name under an explicit identifier, with a  *)
(*             file that cannot be read after one that can                 *)
(***************************************************************************)
EXTENDS IntakeRegistration

CONSTANTS r1, r2, r3, d1, d2, d3, px, py

RegistrarsMC == {r1, r2, r3}

NamesMC == {"atlas", "atlas llc", "beta", "alpha", "alpha lp"}

NormMC == [n \in NamesMC |-> CASE n = "atlas llc" -> "atlas"
                               [] n = "alpha lp"  -> "alpha"
                               [] OTHER -> n]

SlugMC == [n \in {"atlas", "beta", "alpha"} |-> n]

IdsMC == {"atlas", "beta", "alpha", "atlas llc", "custom", "pinned"}

MakeBundle(p, fm, fd, ch, at, fs) ==
  [package |-> p, firmId |-> None, fundId |-> None, firmName |-> fm, fundName |-> fd,
   channel |-> ch, at |-> at, files |-> fs]

F(d, p) == [document |-> d, payload |-> p]

First   == MakeBundle("p1", "atlas", "alpha", "email", 1, <<F(d1, px)>>)
Update  == MakeBundle("p2", "atlas llc", "alpha lp", "email", 2, <<F(d1, px), F(d2, py)>>)
Changed == MakeBundle("p3", "atlas", "alpha", "email", 2, <<F(d3, px), F(d1, py)>>)
Channel == MakeBundle("p1", "atlas llc", "alpha", "upload", 1, <<F(d1, px)>>)
Other   == MakeBundle("p4", "beta", "alpha", "email", 1, <<F(d3, px)>>)
Custom  == [MakeBundle("p5", "atlas", "alpha lp", "email", 2, <<F(d2, px)>>)
              EXCEPT !.firmId = "custom"]
Pinned  == [MakeBundle("p6", "atlas llc", "alpha", "email", 1, <<F(d3, px), F(d2, None)>>)
              EXCEPT !.fundId = "pinned"]

BundleList == <<First, Update, Changed, Channel, Other, Custom, Pinned>>

\* Calls that race on one database, each with a service of its own, as the
\* command line makes them ...
Shared == [exclusive |-> FALSE, service_of |-> [r \in RegistrarsMC |-> r],
           bundles |-> {First, Update, Changed, Channel, Other}]

\* ... and calls made one at a time, two of them in one process, with one service.
Serial == [exclusive |-> TRUE, service_of |-> [r \in RegistrarsMC |-> IF r = r3 THEN r3 ELSE r1],
           bundles |-> {BundleList[k] : k \in 1..7}]

SerialOwn == [exclusive |-> TRUE, service_of |-> [r \in RegistrarsMC |-> r],
              bundles |-> {First, Other}]

UsesMC == {Serial, Shared}

UsesFund == {SerialOwn}

Place(b) == CHOOSE k \in 1..7 : BundleList[k] = b

\* Calls that have the same service, or one each, may trade places: the first
\* of them gets the bundle that comes first.
InOrder ==
  /\ Place(job[r1]) <= Place(job[r2])
  /\ use = Shared => Place(job[r2]) <= Place(job[r3])

InitMC == Init /\ InOrder

SpecMC == InitMC /\ [][Next]_vars
=============================================================================
