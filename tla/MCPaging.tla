------------------------------ MODULE MCPaging ------------------------------
EXTENDS PagingFIFO
=============================================================================
