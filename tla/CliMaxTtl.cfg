\* get_args on a set of command lines: "-h N" and "--max-ttl N" select the
\* help entry of the option table instead of max-ttl.
CONSTANT CommandLines <- MCCommandLines
SPECIFICATION Spec
INVARIANT CommandLineAsDocumented
