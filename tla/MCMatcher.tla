----------------------------- MODULE MCMatcher ------------------------------
EXTENDS Matcher

\* Two proxies in different compartments and with different NATs, at two IP
\* addresses, and an exempt priority proxy at the address of one of them.
Proxy(compartment, priority, nat, version, ip) ==
    [common |-> TRUE, compartment |-> compartment, priority |-> priority, nat |-> nat,
     quality |-> {}, version |-> version, place |-> "far", ip |-> ip, exempt |-> FALSE]

MCAnnouncementProps ==
    { Proxy("c1", FALSE, "unlimited", 1, "ip1"),
      Proxy("c2", FALSE, "strict", 2, "ip2"),
      [Proxy("c1", TRUE, "partial", 2, "ip1") EXCEPT !.quality = {"near2"}, !.exempt = TRUE] }

Client(compartments, nat, media, place, ip) ==
    [common |-> TRUE, compartments |-> compartments, nat |-> nat, version |-> 2,
     media |-> media, place |-> place, ip |-> ip]

\* A client of both compartments, and one of a single compartment that needs the
\* newer protocol and for which the priority proxy has proved its quality.
MCOfferProps ==
    { Client({"c1", "c2"}, "unlimited", FALSE, "near1", "ip1"),
      Client({"c1"}, "strict", TRUE, "near2", "ip2") }

=============================================================================
