----------------------------- MODULE MCHttpServer -----------------------------
EXTENDS HttpServer

CONSTANTS s1, s2, c1, p1, p2, g1, g2

\* One pattern fits both paths, the other one only.
Fits == {<<g1, p1>>, <<g1, p2>>, <<g2, p1>>}

\* Two sockets; two requests on a connection; and servlets that come and go.
ThreeLimits ==
    {[reqs |-> 1, paths |-> {p1}, body |-> 0, socks |-> {s1, s2}, adds |-> 0],
     [reqs |-> 2, paths |-> {p1}, body |-> 2, socks |-> {s1}, adds |-> 0],
     [reqs |-> 1, paths |-> {p1, p2}, body |-> 0, socks |-> {s1}, adds |-> 2]}
==============================================================================
