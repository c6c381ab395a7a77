------------------------------ MODULE MCNavigation ------------------------------
EXTENDS Navigation

(* Five addresses of four sites: dots in a path, its plaintext twin, a subdomain
   and a port, a query right after the host, and none of the schemes that connect. *)
At(scheme, text) == [scheme |-> scheme, text |-> text]
Page == At("https", <<"a", ".", "com", "/", "x", ".", "y", ".", "z">>)
Subdomain == At("https", <<"www", ".", "a", ".", "com", ":", "8443">>)
Plain == At("http", Page.text)
Query == At("https", <<"b", ".", "com", "?", "v=1", ".", "2">>)
Bare == At(NoScheme, <<"b", ".", "a", ".", "com", "#", "top">>)
MCUrl == {Page, Subdomain, Plain, Query, Bare}

(* A modern server, one without the hybrid, one with the classical group alone,
   and one that stayed at TLS 1.2. *)
Speaks(tls, alpn, groups) == [tls |-> tls, alpn |-> alpn, groups |-> groups]
Modern == Speaks(13, {"h3", "h2"}, KemGroup)
MCServer == [text \in {u.text : u \in MCUrl} |->
  CASE text = Page.text -> Modern
    [] text = Subdomain.text -> Speaks(13, {"http/1.1"}, {"X25519", "MlKem768"})
    [] text = Query.text -> Speaks(13, {"h2"}, {"X25519"})
    [] OTHER -> Speaks(12, {"h2"}, KemGroup)]

Of(http11, mode, pq) == [allow_http11 |-> http11, https_mode |-> mode, pq_kem |-> pq]
MCPolicy == {DefaultPolicy, Of(TRUE, "HttpsFirst", "Required"), Of(TRUE, "Off", "Disabled")}

ASSUME HandshakeAssumption ==
  \A supported \in SUBSET KemGroup, enforcement \in PqEnforcement :
    HandshakeIsBest(supported, enforcement)
===============================================================================
