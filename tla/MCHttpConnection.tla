-------------------------- MODULE MCHttpConnection --------------------------
EXTENDS HttpConnection

TwoServers == {4, 5}
OneElsewhere == {5}
OneMessage == {6}
=============================================================================
