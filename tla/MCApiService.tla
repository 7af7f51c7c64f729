---------------------------- MODULE MCApiService ----------------------------
EXTENDS ApiService

CONSTANTS e1, e2, e3

MCEndpointList == <<e1, e2, e3>>

====
