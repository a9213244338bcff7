----------------------------- MODULE MCDnsCache -----------------------------
(* DnsCache for TLC: two types of records of one name, one of another. *)
EXTENDS DnsCache

CONSTANTS n1, n2

MCName == {n1, n2}

MCRr == {<<n1, "a">>, <<n1, "aaaa">>, <<n2, "a">>}
=============================================================================
