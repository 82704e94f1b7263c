------------------------------- MODULE MCMatching -------------------------------
(* A small instance of Matching: hosts around example.com, the public suffixes *)
(* github.io and s3.example.com, localhost and an IPv4 loopback address.       *)
EXTENDS Matching

Example == <<"example", "com">>
WWW == <<"www", "example", "com">>
Lookalike == <<"evil-example", "com">>
GitHub == <<"github", "io">>
Pages1 == <<"a", "github", "io">>
Localhost == <<"localhost">>
AppLocal == <<"app", "localhost">>
IPv4 == <<"127", "0", "0", "1">>
Bucket == <<"b", "s3", "example", "com">>
Shout == <<"Example", "COM">>
SoftHyphen == <<"soft-hyphen">>

MCRawHosts == {Example, WWW, Lookalike, GitHub, Pages1, Localhost, AppLocal, IPv4, Bucket, Shout, SoftHyphen}
MCToASCII == [h \in MCRawHosts |->
    IF h = Shout THEN Example ELSE IF h = SoftHyphen THEN <<>> ELSE h]
MCPublicSuffixes == {<<"com">>, <<"io">>, <<"github", "io">>, <<"s3", "example", "com">>}
MCLoopbackHosts == {Localhost, IPv4}

Raw(s, h, p) == [scheme |-> s, host |-> h, port |-> p]
Https(h) == Raw("https", h, "")

Plain(urls, project, credential) ==
    [urls |-> urls, present |-> FALSE, urlEntries |-> <<>>, project |-> project, credential |-> credential]
Form(urls, urlEntries, project, credential) ==
    [urls |-> urls, present |-> TRUE, urlEntries |-> urlEntries, project |-> project, credential |-> credential]
Sub(h) == [raw |-> h, sub |-> TRUE]
Only(h) == [raw |-> h, sub |-> FALSE]

MCSubmissions == {
    Plain(<<Https(Example)>>, " ", TRUE),
    Plain(<<Raw("HTTPS", Shout, "443"), Https(WWW)>>, "p", FALSE),
    Form(<<Https(Example)>>, <<>>, "", TRUE),
    Form(<<>>, <<Sub(Https(Example)), Only(Https(WWW))>>, "", TRUE),
    Form(<<Https(WWW)>>, <<Sub(Https(GitHub))>>, "p", TRUE),
    Form(<<>>, <<Sub(Raw("http", Localhost, "8080"))>>, "p", FALSE),
    Plain(<<Raw("http", IPv4, "8080"), Raw("http", Localhost, "")>>, "", TRUE),
    Plain(<<Https(SoftHyphen)>>, "", TRUE),
    Plain(<<Raw("ftp", Example, "")>>, "", TRUE),
    Plain(<<>>, "p", TRUE),
    Plain(<<>>, "", FALSE)}

MCPages ==
    {Https(h) : h \in MCRawHosts}
    \cup {Raw("http", h, p) : h \in {Example, Localhost, AppLocal, IPv4}, p \in {"", "8080"}}
===============================================================================
