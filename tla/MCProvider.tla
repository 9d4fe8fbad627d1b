----------------------------- MODULE MCProvider -----------------------------
(* A small instance of Provider for TLC. *)
EXTENDS Provider

\* shop.a.com, a name without a dot, and nothing at all.
Shop == <<<<"shop">>, <<"a">>, <<"com">>>>
Names == {Shop, <<<<"localhost">>>>, <<>>}

\* The application root of shop.a.com and of shop-a.com.
Slug == <<"shop", "a", "com">>
Dashed == <<<<"shop", "a">>, <<"com">>>>

Shops == {<<"mysql", "shop">>, <<"redis", "shop">>}
ShopDB == <<"mysql", "shop">>

Wired == [adapter |-> "cpanel", alias |-> "a", host |-> "h", user |-> "u", port |-> 0,
          properties |-> <<>>, https |-> TRUE, ssh |-> TRUE, mutations |-> TRUE,
          reader |-> TRUE, mutator |-> TRUE, runner |-> TRUE]

Several == {
    Wired,
    [Wired EXCEPT !.https = FALSE, !.properties =
        [autossl_poll_seconds |-> 600, domain_kind |-> "subdomain"]],
    [Wired EXCEPT !.ssh = FALSE, !.mutations = FALSE],
    [Wired EXCEPT !.ssh = FALSE, !.runner = FALSE, !.properties = [ssl_provider |-> "manual"]],
    [Wired EXCEPT !.https = FALSE, !.ssh = FALSE, !.reader = FALSE, !.port = 65535],
    [Wired EXCEPT !.properties = [autossl_poll_seconds |-> 601]],
    [Wired EXCEPT !.properties = [domain_kind |-> "parked"]],
    [Wired EXCEPT !.port = 65536],
    [Wired EXCEPT !.adapter = "smallhost", !.properties = [ssh_pool_max |-> 3]],
    [Wired EXCEPT !.adapter = "smallhost", !.properties = [restart_method |-> "passenger"]],
    [Wired EXCEPT !.adapter = "directadmin"],
    [Wired EXCEPT !.adapter = "plesk"]}

\* An empty account; one with the other domain; one with a user of the
\* database's name; one where everything is there already.
Accounts == {
    {},
    {<<"domain", Dashed>>, <<"app", Slug>>},
    {<<"user", ShopDB>>},
    {<<"domain", Shop>>, <<"app", Slug>>, <<"cert", Shop>>,
     <<"db", ShopDB>>, <<"user", ShopDB>>, <<"grant", ShopDB>>}}
=============================================================================
