SPECIFICATION PagesSpec
CONSTANTS
    admin = admin
    manager = manager
    agent = agent
    customer = customer
    Users = {admin, manager, agent, customer}
    NoUser = NoUser
    Role <- OneOfEach
    TheTicket = t1
    Owner = customer
    MaxEdition = 3
    MaxChanges = 2
INVARIANTS OffersAreAllowed OwnWritesAreShown
PROPERTIES FormsKeepWhatTheyShow TicketGoesThroughItsLife
