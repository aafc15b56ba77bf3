----------------------------- MODULE MCDispatch -----------------------------
(***************************************************************************)
(* Dispatch on a small instance: three requests, two apps mounted in one   *)
(* place, and three configurations.  Three SOAP integrations have one WSDL *)
(* and two endpoints; one names an operation that the WSDL does not have,  *)
(* one goes through a gateway that has no WSDL.                            *)
(***************************************************************************)
EXTENDS Dispatch, TLC

CONSTANTS r1, r2, r3, a1, a2, soap, own, bad, none, http, gs, gh, p1, p2, w, d, op, root

SmallMounts == <<[app |-> a1, base |-> root], [app |-> a2, base |-> root]>>

\* A route matches the request of its name.
SmallMatches == [at \in {root} \X Paths |-> {at[2]}]

SmallDescribes == [a \in Addresses |-> IF a = w THEN {op} ELSE {}]

Named(from) ==
  [n \in {AuthToken} |-> [from |-> from, required |-> FALSE, default |-> FALSE]]

Call1(kind, gateway, address, wsdl, operation, inputs) ==
  [kind |-> kind, gateway |-> gateway, address |-> address, wsdl |-> wsdl,
   operation |-> operation, header |-> TRUE, inputs |-> inputs]

SmallIntegrations ==
  [i \in Integrations |->
     CASE i = soap -> Call1("soap", gs, NoAddress, NoAddress, op, Named("caller"))
       [] i = own  -> Call1("soap", NoGateway, d, w, op, EmptyMap)
       [] i = bad  -> Call1("soap", gs, d, NoAddress, none, EmptyMap)
       [] i = none -> Call1("soap", gh, NoAddress, NoAddress, op, EmptyMap)
       [] i = http -> Call1("http", gh, NoAddress, NoAddress, op,
                            [n \in {AuthToken} |-> [from |-> "environment",
                                                    required |-> TRUE, default |-> TRUE]])]

Via1(requires, common, base, wsdl) ==
  [requires |-> requires, common |-> common, base |-> base, wsdl |-> wsdl]

To(i) == [path |-> i, integration |-> i]

Config1(apps, gateways) ==
  [apps |-> apps, integrations |-> SmallIntegrations, gateways |-> gateways]

\* Both gateways require a provider; one of them is there and open.
SmallConfigs ==
  { Config1([a \in {a1, a2} |->
               IF a = a1 THEN <<To(soap), To(own)>> ELSE <<To(bad), To(http), To(none)>>],
            [g \in {gs, gh} |-> IF g = gs THEN Via1(p1, {AuthToken}, NoAddress, w)
                                         ELSE Via1(p2, {}, d, NoAddress)]),
    Config1([a \in {a2} |-> <<To(soap), [path |-> own, integration |-> http], To(bad)>>],
            [g \in {gs} |-> Via1(NoProvider, {AuthToken}, NoAddress, w)]),
    Config1([a \in {a2} |-> <<To(http), To(own), To(none)>>],
            [g \in {gh} |-> Via1(NoProvider, {AuthToken}, d, NoAddress)]) }

Interchangeable == Permutations({r1, r2, r3})
=============================================================================
