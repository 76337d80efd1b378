------------------------------- MODULE MCCli -------------------------------
EXTENDS Cli

\* Command lines for get_args: documented ones, one per parse path, and the
\* malformed ones that take each of its error exits.
MCCommandLines ==
  { <<Word("host")>>,
    <<Opt("c"), Word("mda"), Word("host"), Opt("a"), Num("99", 99),
      Opt("f"), Word("icmp-dst")>>,
    <<Opt("m"), Word("udp"), Opt("p"), Num("4", 4), Word("host"),
      Opt("p"), Num("2", 2)>>,
    <<Opt("c"), Word("ping"), Opt("n"), Num("3", 3), Word("host")>>,
    <<Opt("h"), Num("10", 10), Word("host")>>,
    <<LongOpt("max-ttl"), Num("10", 10), Word("host")>>,
    <<LongOpt("wait"), Num("2", 2), Word("host")>>,
    <<LongOpt("help")>>,
    <<Opt("x"), Word("host")>>,
    <<Word("h1"), Opt("x"), Word("host")>>,
    <<Opt("p"), Word("abc"), Word("host")>>,
    <<Opt("a"), Num("97", 97), Word("host")>>,
    <<Opt("m"), Word("sctp"), Word("host")>>,
    <<Word("host"), Opt("w")>>,
    <<Opt("c"), Word("mda"), Word("h1"), Word("h2")>>,
    <<Opt("z"), Num("50", 50)>> }
=============================================================================
