--------------------------- MODULE MCOperations ----------------------------
EXTENDS Operations

MCRuns == {"run1", "run2"}
MCTasks == {"tag", "thumbnail"}
MCBackends == {"inprocess", "redis", "celery", "rq"}
OnlyRedis == {"redis"}
=============================================================================
