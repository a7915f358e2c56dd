----------------------------- MODULE MCDnsPhase -----------------------------
EXTENDS DnsPhase
Apis == <<"route53", "hetzner">>
Served == <<"nsupdate", "hetzner">>
=============================================================================
