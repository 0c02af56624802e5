---------------------------- MODULE BookingGate ----------------------------
(***************************************************************************)
(* What a delivery passes before it is taken and again before it launches: *)
(* the geocode of its addresses (src/geo/geo.service.ts), the              *)
(* serviceability check (src/serviceability), the price                    *)
(* (src/pricing/pricing.service.ts) and the pre-flight verdict             *)
(* (src/deliveries/simulation/preflight.ts).                               *)
(*                                                                         *)
(* Places are points of a grid and distances are compared squared, so that *)
(* the geometry is exact.  The geocoder and the weather service are        *)
(* external: either may fail, and their answers are cached.  Zones change  *)
(* between the booking and its launch.  The price stands for its one       *)
(* component that depends on the route, the squared distance.              *)
(***************************************************************************)
EXTENDS Integers, FiniteSets

CONSTANTS
  Addresses,
  Location,                \* per address: its point, or Nowhere
  Pins,                    \* points a caller may pin
  SERVICE_AREAS, Zones,    \* circles [x, y, radius]
  MAX_ROUTE, MAX_COORD_DEVIATION,
  PREFLIGHT_MAX_ATTEMPTS

Nowhere == <<>>
NoPin == <<>>
Sides == {"from", "to"}
Cells == {Location[a] : a \in Addresses} \ {Nowhere}

ASSUME GateAssumption ==
  /\ Addresses # {}
  /\ \A a \in Addresses : Location[a] \in (Int \X Int) \cup {Nowhere}
  /\ \A c \in SERVICE_AREAS \cup Zones : c.x \in Int /\ c.y \in Int /\ c.radius \in Int

VARIABLES
  geoCache,    \* per address: "none", "miss" or a found point
  sky,         \* per place: the weather there, "flyable" or "grounded"
  skyCache,    \* per place: "none" or a cached condition
  zones,       \* no-fly zones in force
  booking      \* the delivery on its way through create() and launch

gateVars == <<geoCache, sky, skyCache, zones, booking>>

Unbooked == [at |-> "none", address |-> [s \in Sides |-> CHOOSE a \in Addresses : TRUE],
             pin |-> [s \in Sides |-> NoPin], answered |-> {}, coords |-> [s \in Sides |-> Nowhere],
             stage |-> "create", attempt |-> 0, priced |-> 0]

GateTypeOK ==
  /\ \A a \in Addresses : geoCache[a] \in {<<"none">>, <<"miss">>} \cup {<<"found", p>> : p \in Cells}
  /\ sky \in [Cells -> {"flyable", "grounded"}] /\ skyCache \in [Cells -> {"none", "flyable", "grounded"}]
  /\ zones \subseteq Zones
  /\ booking.at \in {"none", "geocoding", "checking", "weather", "pricing", "accepted", "refused",
                     "launched", "aborted"}
  /\ booking.attempt \in 0..PREFLIGHT_MAX_ATTEMPTS

GateInit ==
  /\ geoCache = [a \in Addresses |-> <<"none">>]
  /\ sky = [c \in Cells |-> "flyable"]
  /\ skyCache = [c \in Cells |-> "none"]
  /\ zones = {}
  /\ booking = Unbooked

----------------------------------------------------------------------------
(* Geometry: serviceability.service.ts *)

Square(n) == n * n
Distance2(p, q) == Square(p[1] - q[1]) + Square(p[2] - q[2])
InCircle(p, c) == Distance2(p, <<c.x, c.y>>) <= Square(c.radius)

\* pointToSegmentKm against the radius: the projection of the centre on the
\* segment is clamped to its ends.
RouteNearCircle_Ends(a, b, c) == InCircle(a, c) \/ InCircle(b, c)
RouteNearCircle(a, b, c) ==
  LET len2 == Distance2(a, b)
      along == (c.x - a[1]) * (b[1] - a[1]) + (c.y - a[2]) * (b[2] - a[2])
      cross == (c.x - a[1]) * (b[2] - a[2]) - (c.y - a[2]) * (b[1] - a[1])
  IN \/ (len2 = 0 \/ along <= 0) /\ InCircle(a, c)
     \/ len2 # 0 /\ along >= len2 /\ InCircle(b, c)
     \/ len2 # 0 /\ along > 0 /\ along < len2 /\ Square(cross) <= Square(c.radius) * len2

IsInAnyArea(p) == \E area \in SERVICE_AREAS : InCircle(p, area)

\* The hard blockers of checkServiceability, in its order.
HardCode(a, b) ==
  CASE ~IsInAnyArea(a) \/ ~IsInAnyArea(b) -> "OUT_OF_AREA"
    [] Distance2(a, b) > Square(MAX_ROUTE) -> "ROUTE_TOO_LONG"
    [] \E z \in zones : InCircle(a, z) \/ InCircle(b, z) \/ RouteNearCircle(a, b, z) -> "NO_FLY_ZONE"
    [] OTHER -> "none"

----------------------------------------------------------------------------
(* create() up to its first write *)

\* assertWeightWithinCap and isValidPickupDate have passed.
Book(from, to, pins) ==
  /\ booking.at = "none"
  /\ booking' = [Unbooked EXCEPT !.at = "geocoding", !.address = [s \in Sides |-> IF s = "from" THEN from ELSE to],
                                 !.pin = pins]
  /\ UNCHANGED <<geoCache, sky, skyCache, zones>>

Answered(s, p) == [booking EXCEPT !.answered = @ \cup {s}, !.coords[s] = p]

\* geocode: a cached answer, ...
GeocodeHit(s) ==
  /\ booking.at = "geocoding" /\ s \notin booking.answered
  /\ LET cached == geoCache[booking.address[s]]
     IN /\ cached # <<"none">>
        /\ booking' = Answered(s, IF cached = <<"miss">> THEN Nowhere ELSE cached[2])
  /\ UNCHANGED <<geoCache, sky, skyCache, zones>>

\* ... the provider's answer, found or not, which is cached ...
GeocodeFetched(s) ==
  /\ booking.at = "geocoding" /\ s \notin booking.answered
  /\ LET a == booking.address[s]
     IN /\ geoCache[a] = <<"none">>
        /\ geoCache' = [geoCache EXCEPT ![a] = IF Location[a] = Nowhere THEN <<"miss">> ELSE <<"found", Location[a]>>]
        /\ booking' = Answered(s, Location[a])
  /\ UNCHANGED <<sky, skyCache, zones>>

\* ... or its failure, which is not.
GeocodeFailed(s) ==
  /\ booking.at = "geocoding" /\ s \notin booking.answered
  /\ geoCache[booking.address[s]] = <<"none">>
  /\ booking' = Answered(s, Nowhere)
  /\ UNCHANGED <<geoCache, sky, skyCache, zones>>

\* external: an entry lapses (GEO_TTL_S, GEO_MISS_TTL_S, WEATHER_TTL_S) or is
\* evicted.
CachesExpire ==
  /\ \/ \E a \in Addresses : geoCache[a] # <<"none">> /\ geoCache' = [geoCache EXCEPT ![a] = <<"none">>] /\ UNCHANGED skyCache
     \/ \E c \in Cells : skyCache[c] # "none" /\ skyCache' = [skyCache EXCEPT ![c] = "none"] /\ UNCHANGED geoCache
  /\ UNCHANGED <<sky, zones, booking>>

\* assertCoordAgreesWithAddress.
PinAgrees(s) == \/ booking.pin[s] = NoPin \/ booking.coords[s] = Nowhere
                \/ Distance2(booking.pin[s], booking.coords[s]) <= Square(MAX_COORD_DEVIATION)

\* resolveCoords: the geocodes; caller pins are compared, never used.
ResolveCoords == booking.coords

ResolvesRoute ==
  /\ booking.at = "geocoding" /\ booking.answered = Sides
  /\ booking' = IF /\ \A s \in Sides : PinAgrees(s)
                   /\ \A s \in Sides : ResolveCoords[s] # Nowhere
                THEN [booking EXCEPT !.at = "checking", !.coords = ResolveCoords]
                ELSE [booking EXCEPT !.at = "refused"]
  /\ UNCHANGED <<geoCache, sky, skyCache, zones>>

\* The verdict of a serviceability check: assertServiceable refuses a booking
\* on any blocker; classifyPreflight launches, holds for the weather until
\* holdExhausted, and aborts on a hard blocker.
Verdict(code) ==
  CASE booking.stage = "create" -> [booking EXCEPT !.at = IF code = "none" THEN "pricing" ELSE "refused"]
    [] booking.stage = "launch" /\ code = "none" -> [booking EXCEPT !.at = "launched"]
    [] booking.stage = "launch" /\ code = "WEATHER" /\ booking.attempt + 1 < PREFLIGHT_MAX_ATTEMPTS
         -> [booking EXCEPT !.at = "accepted", !.attempt = @ + 1]
    [] OTHER -> [booking EXCEPT !.at = "aborted"]

\* checkServiceability: the hard blockers; an unreadable zone list blocks.
ChecksRoute ==
  /\ booking.at = "checking"
  /\ LET code == HardCode(booking.coords["from"], booking.coords["to"])
     IN booking' = IF code = "none" THEN [booking EXCEPT !.at = "weather"] ELSE Verdict(code)
  /\ UNCHANGED <<geoCache, sky, skyCache, zones>>

ZonesUnreadable ==
  /\ booking.at = "checking"
  /\ booking' = Verdict("NO_FLY_ZONE")
  /\ UNCHANGED <<geoCache, sky, skyCache, zones>>

\* The provider's answer, or "unknown, flyable" when the fetch fails.
FetchConditions(c) == {sky[c], "flyable"}

\* getConditions: the cell's cached answer, or a fetched one.
GetConditions(c) == IF skyCache[c] # "none" THEN {skyCache[c]} ELSE FetchConditions(c)

\* Both ends; whatever was fetched is cached, the fallback included.
ChecksWeather ==
  /\ booking.at = "weather"
  /\ LET ends == {booking.coords[s] : s \in Sides} \cap Cells
     IN \E seen \in [ends -> {"flyable", "grounded"}] :
          /\ \A c \in ends : seen[c] \in GetConditions(c)
          /\ skyCache' = [c \in Cells |-> IF c \in ends THEN seen[c] ELSE skyCache[c]]
          /\ booking' = Verdict(IF \E c \in ends : seen[c] = "grounded" THEN "WEATHER" ELSE "none")
  /\ UNCHANGED <<geoCache, sky, zones>>

\* pricingService.estimate with the resolved coordinates.
Price ==
  /\ booking.at = "pricing"
  /\ booking' = [booking EXCEPT !.at = "accepted", !.stage = "launch",
                                !.priced = Distance2(booking.coords["from"], booking.coords["to"])]
  /\ UNCHANGED <<geoCache, sky, skyCache, zones>>

\* The kickoff's pre-flight reads the stored coordinates.
Preflight ==
  /\ booking.at = "accepted"
  /\ booking' = [booking EXCEPT !.at = "checking"]
  /\ UNCHANGED <<geoCache, sky, skyCache, zones>>

\* external: while a delivery waits, weather and airspace change.
ConditionsChange ==
  /\ booking.at = "accepted"
  /\ \/ \E c \in Cells, w \in {"flyable", "grounded"} : sky' = [sky EXCEPT ![c] = w] /\ UNCHANGED zones
     \/ zones' \in SUBSET Zones /\ UNCHANGED sky
  /\ UNCHANGED <<geoCache, skyCache, booking>>

BookAgain ==
  /\ booking.at \in {"refused", "launched", "aborted"}
  /\ booking' = Unbooked
  /\ UNCHANGED <<geoCache, sky, skyCache, zones>>

\* reorder: create() again from the addresses of a past delivery, without its
\* coordinates.
Reorder ==
  /\ booking.at \in {"launched", "aborted"}
  /\ booking' = [Unbooked EXCEPT !.at = "geocoding", !.address = booking.address]
  /\ UNCHANGED <<geoCache, sky, skyCache, zones>>

GateNext ==
  \/ \E from, to \in Addresses, pins \in [Sides -> Pins \cup {NoPin}] : Book(from, to, pins)
  \/ \E s \in Sides : GeocodeHit(s) \/ GeocodeFetched(s) \/ GeocodeFailed(s)
  \/ CachesExpire \/ ResolvesRoute \/ ChecksRoute \/ ZonesUnreadable \/ ChecksWeather
  \/ Price \/ Preflight \/ ConditionsChange \/ BookAgain \/ Reorder

GateSpec == GateInit /\ [][GateNext]_gateVars

----------------------------------------------------------------------------
(* Properties *)

\* Points of the route, as fractions of 4, scaled by 4.
OnRoute(a, b) == {<<4 * a[1] + k * (b[1] - a[1]), 4 * a[2] + k * (b[2] - a[2])>> : k \in 0..4}
Clear(a, b, c) == \A p \in OnRoute(a, b) : Square(p[1] - 4 * c.x) + Square(p[2] - 4 * c.y) > Square(4 * c.radius)

\* What launches flies between the places its addresses name, whatever was
\* pinned, cached or unavailable: it is priced by that distance, and no point
\* of its way lies in a zone in force at the last check (checkServiceability,
\* the authoritative geocode of resolveCoords).
LaunchedRouteIsClear ==
  booking.at = "launched" =>
    LET a == Location[booking.address["from"]]
        b == Location[booking.address["to"]]
    IN /\ a # Nowhere /\ b # Nowhere
       /\ IsInAnyArea(a) /\ IsInAnyArea(b)
       /\ booking.priced = Distance2(a, b)
       /\ \A z \in zones : Clear(a, b, z)
=============================================================================
